---- MODULE Spec2Model ----
(***************************************************************************)
(* code-health-meter: the dependency graph, coupling and modularity        *)
(* engine.                                                                 *)
(*                                                                         *)
(*   Spec          one run of startModularityAudit                         *)
(*                 (buildDirectoryTree, buildLouvainGraph, the three       *)
(*                 metric readers)                                         *)
(*   SpecCoupling  one run of CodeCouplingAuditor.startAudit               *)
(*                                                                         *)
(* JavaScript objects are functions with a string domain, built with :>    *)
(* and @@; the object spread {...a, ...b} is b @@ a.  Numbers that are     *)
(* quotients are kept as [num, den]; den = 0 is what JavaScript prints as  *)
(* NaN (num = 0) or Infinity (num > 0).                                    *)
(***************************************************************************)
EXTENDS Integers, Sequences, FiniteSets, TLC

VARIABLES
    pc,          \* position of the run
    tree,        \* the adjacency mapping: <<[file, dependencies], ...>> in key order
    svg,         \* the diagram the extractor returned
    rest,        \* the extractor's other fields (warnings, circular, ...)
    treeData,    \* what the layout resolver returned
    nodesTodo,   \* nodes the first forEach has still to visit
    edgesTodo,   \* edges the second forEach has still to visit
    graph,       \* the graphology graph under construction
    bundle,      \* the object literal being evaluated by the return statement
    result,      \* the object handed to the caller
    returned,    \* how the call ended: "pending", "object", "null", "thrown"
    history,     \* what happened on the way (extractor outcome, exceptions)
    reports,     \* CodeCouplingAuditor: dependenciesCouplingReports
    idx,         \* CodeCouplingAuditor: position of the for-of loop
    index,       \* louvain: the DirectedLouvainIndex and the queue of the local moves
    cli,         \* the command line program: exit status and the steps it has run
    fs,          \* the report writer: the output directory before and now, and the call
    match        \* Matcher: the chain of on(...) calls, the object in hand, what has run

vars == <<pc, tree, svg, rest, treeData, nodesTodo, edgesTodo, graph, bundle,
          result, returned, history, reports, idx, index, cli, fs, match>>

----------------------------------------------------------------------------
(* Bounds of the model: the adjacency mapping has at most MaxKeys modules;  *)
(* its dependency lists hold at most MaxEdges entries in all for a         *)
(* modularity run and MaxDeps for a coupling run.                          *)

MaxKeys == 2

MaxEdges == 2

MaxDeps == 3

Modules == {"a", "b", "c"}

----------------------------------------------------------------------------
(* Objects and numbers *)

EmptyObj == [k \in {} |-> 0]

Spread(a, b) == b @@ a

Has(o, k) == k \in DOMAIN o

Null == [null |-> TRUE]

(* the command line program before its first statement *)
NotStarted ==
    [exit |-> "running", steps |-> <<>>, srcDir |-> "", outputDir |-> "", format |-> ""]

(* a file of the output directory *)
NoFile == [exists |-> FALSE, format |-> "", keys |-> {}]

(* an output directory that does not exist *)
NoDisk == [dir |-> FALSE, report |-> NoFile, svg |-> NoFile]

NoCall == [outputDir |-> "", fileFormat |-> "", outcome |-> ""]

(* no chain of Matcher calls has been started *)
NoMatcher ==
    [value |-> 0, clauses |-> <<>>, at |-> 0, object |-> [kind |-> "none", value |-> 0],
     ran |-> <<>>, applied |-> <<>>, out |-> 0]

(* no report writer has run *)
NoFiles == [before |-> NoDisk, now |-> NoDisk, call |-> NoCall]

Ratio(n, d) == [num |-> n, den |-> d]

Zero == Ratio(0, 1)

IsNaN(q) == q.den = 0 /\ q.num = 0

IsFinite(q) == q.den # 0

Range(s) == {s[i] : i \in DOMAIN s}

RECURSIVE Reverse(_)
Reverse(s) == IF s = <<>> THEN <<>> ELSE Append(Reverse(Tail(s)), Head(s))

RECURSIVE Concat(_)
Concat(ss) == IF ss = <<>> THEN <<>> ELSE Head(ss) \o Concat(Tail(ss))

RECURSIVE SumSeq(_)
SumSeq(s) == IF s = <<>> THEN 0 ELSE Head(s) + SumSeq(Tail(s))

----------------------------------------------------------------------------
(* What the dependency extractor (Madge) can hand back *)

ListsUpTo(n) == UNION {[1..k -> Modules] : k \in 0..n}

KeySeqs ==
    {ks \in UNION {[1..n -> Modules] : n \in 0..MaxKeys} :
        \A i, j \in DOMAIN ks : ks[i] = ks[j] => i = j}

RECURSIVE DepSeqs(_, _)
DepSeqs(n, budget) ==
    IF n = 0 THEN {<<>>}
    ELSE UNION {{<<l>> \o others : others \in DepSeqs(n - 1, budget - Len(l))} :
                   l \in ListsUpTo(budget)}

TreesWithin(maxEdges) ==
    UNION {{[i \in DOMAIN ks |-> [file |-> ks[i], dependencies |-> d[i]]] :
               d \in DepSeqs(Len(ks), maxEdges)} : ks \in KeySeqs}

Trees == TreesWithin(MaxEdges)

CouplingTrees == TreesWithin(MaxDeps)

NoSvg == [kind |-> "none", titles |-> {}]

Svgs ==
    {NoSvg, [kind |-> "unparseable", titles |-> {}]}
        \cup {[kind |-> "svg", titles |-> T] : T \in SUBSET Modules}

Rests ==
    {("warnings" :> <<>>) @@ ("circular" :> <<>>) @@ ("circularGraph" :> <<>>)
         @@ ("orphans" :> <<>>) @@ ("leaves" :> <<>>),
     ("warnings" :> <<"skipped">>) @@ ("circular" :> <<<<"a", "b">>>>)
         @@ ("circularGraph" :> <<"a", "b">>) @@ ("orphans" :> <<"c">>)
         @@ ("leaves" :> <<"b">>)}

MadgeOutcomes == {"throws", "nothing", "noTree", "svgThrows", "ok"}

Keys(t) == [i \in DOMAIN t |-> t[i].file]

----------------------------------------------------------------------------
(* CodeModularityBuilder.buildDirectoryTree *)

TruthyTree(t) == Len(t) > 0

TruthySvg(s) == s.kind # "none"

buildDirectoryTree(kind, t, s, r) ==
    IF kind \in {"throws", "nothing", "noTree", "svgThrows"} THEN EmptyObj
    ELSE IF ~TruthyTree(t) THEN EmptyObj
    ELSE IF ~TruthySvg(s) THEN EmptyObj
    ELSE Spread(("tree" :> t) @@ ("treeVisualization" :> s), r)

(* startModularityAudit, line 326: nothing to analyse *)
NothingToAudit(built) ==
    \/ ~Has(built, "tree")
    \/ ~TruthyTree(built["tree"])
    \/ ~Has(built, "treeVisualization")
    \/ ~TruthySvg(built["treeVisualization"])

(* a destructuring that loses the warnings *)
RestOf_DropsWarnings(built) ==
    [k \in DOMAIN built \ {"tree", "treeVisualization", "warnings"} |-> built[k]]

(* line 324: const { tree, treeVisualization, ...rest } *)
RestOf(built) == [k \in DOMAIN built \ {"tree", "treeVisualization"} |-> built[k]]

----------------------------------------------------------------------------
(* The tree normalizer and the layout resolver *)

(* a normalizer whose pairs are [dependency, module] *)
normalizeProjectTree_Swapped(t) ==
    IF Len(t) = 0 THEN [nodes |-> <<>>, edges |-> <<>>]
    ELSE [nodes |-> Keys(t),
          edges |-> Concat([i \in DOMAIN t |->
                       [j \in DOMAIN t[i].dependencies |->
                           <<t[i].dependencies[j], t[i].file>>]])]

(* normalizeProjectTree: Object.keys(tree).reduce(...) *)
normalizeProjectTree(t) ==
    IF Len(t) = 0 THEN [nodes |-> <<>>, edges |-> <<>>]
    ELSE [nodes |-> Keys(t),
          edges |-> Concat([i \in DOMAIN t |->
                       [j \in DOMAIN t[i].dependencies |->
                           <<t[i].file, t[i].dependencies[j]>>]])]

Coord(title) == CASE title = "a" -> [x |-> 1, y |-> 1]
                  [] title = "b" -> [x |-> 2, y |-> 1]
                  [] OTHER -> [x |-> 3, y |-> 2]

retrieveProjectTreeData(s) ==
    IF s.kind = "svg"
    THEN [ok |-> TRUE,
          items |-> {[title |-> m, x |-> Coord(m).x, y |-> Coord(m).y] : m \in s.titles}]
    ELSE [ok |-> FALSE, items |-> {}]

----------------------------------------------------------------------------
(* graphology: new Graph({type: 'directed', allowSelfLoops: true, multi: false}) *)

EmptyGraph == [nodes |-> <<>>, attrs |-> EmptyObj, edges |-> <<>>]

IsGraph(g) == g # Null

HasNode(g, n) == n \in Range(g.nodes)

HasEdge(g, s, t) == <<s, t>> \in Range(g.edges)

Order(g) == Len(g.nodes)

Size(g) == Len(g.edges)

AddNodeThrows(g, n) == HasNode(g, n)

AddNode(g, n, a) ==
    [g EXCEPT !.nodes = Append(@, n), !.attrs = (n :> a) @@ @]

(* an addEdge of a multigraph that creates its endpoints *)
AddEdgeThrows_Never(g, s, t) == FALSE

AddEdgeThrows(g, s, t) == ~HasNode(g, s) \/ ~HasNode(g, t) \/ HasEdge(g, s, t)

AddEdge(g, s, t) == [g EXCEPT !.edges = Append(@, <<s, t>>)]

InDegree(g, n) == Cardinality({i \in DOMAIN g.edges : g.edges[i][2] = n})

OutDegree(g, n) == Cardinality({i \in DOMAIN g.edges : g.edges[i][1] = n})

----------------------------------------------------------------------------
(* graphology-communities-louvain, graphology-metrics *)

ResolutionPercent == 74

NaN == Ratio(0, 0)

NodeIndex(g, n) == CHOOSE i \in DOMAIN g.nodes : g.nodes[i] = n

SingletonCommunities(g) == [n \in Range(g.nodes) |-> NodeIndex(g, n) - 1]

CommunityIds(part) == {part[n] : n \in DOMAIN part}

InternalWeight(g, part, c) ==
    Cardinality({i \in DOMAIN g.edges :
        part[g.edges[i][1]] = c /\ part[g.edges[i][2]] = c})

TotalIn(g, part, c) ==
    Cardinality({i \in DOMAIN g.edges : part[g.edges[i][2]] = c})

TotalOut(g, part, c) ==
    Cardinality({i \in DOMAIN g.edges : part[g.edges[i][1]] = c})

RECURSIVE SumOver(_, _)
SumOver(S, f) ==
    IF S = {} THEN 0
    ELSE LET x == CHOOSE y \in S : TRUE IN f[x] + SumOver(S \ {x}, f)

(* Q = SUM_c  L_c / M  -  resolution * in_c * out_c / M^2 *)
Modularity(g, part) ==
    LET M == Size(g)
        C == CommunityIds(part)
        term == [c \in C |-> 100 * M * InternalWeight(g, part, c)
                     - ResolutionPercent * TotalIn(g, part, c) * TotalOut(g, part, c)]
    IN  Ratio(SumOver(C, term), 100 * M * M)

(* The library numbers nodes and communities from 0 *)
Ids(k) == 0..(k - 1)

Neighbor(p, w) == [node |-> p, weight |-> w]

SumWeights(nb) == SumSeq([j \in DOMAIN nb |-> nb[j].weight])

(* keys of a SparseMap, in the order of their first set() *)
RECURSIVE Dense(_)
Dense(s) ==
    IF s = <<>> THEN <<>>
    ELSE LET before == Dense(SubSeq(s, 1, Len(s) - 1))
             last == s[Len(s)]
         IN  IF last \in Range(before) THEN before ELSE Append(before, last)

(* integer keys of a JavaScript object, as for-in visits them *)
RECURSIVE Ascending(_)
Ascending(S) ==
    IF S = {} THEN <<>>
    ELSE LET x == CHOOSE y \in S : \A z \in S : y <= z
         IN  <<x>> \o Ascending(S \ {x})

(* SparseQueueSet.enqueue, once per element of ps *)
RECURSIVE EnqueueEach(_, _)
EnqueueEach(q, ps) ==
    IF ps = <<>> THEN q
    ELSE EnqueueEach(IF Head(ps) \in Range(q) THEN q ELSE Append(q, Head(ps)), Tail(ps))

(* new DirectedLouvainIndex(graph, {keepDendrogram: true, resolution, weighted: false}) *)
NewIndex(g) ==
    LET n == Order(g)
        es == [i \in DOMAIN g.edges |->
                  <<NodeIndex(g, g.edges[i][1]) - 1, NodeIndex(g, g.edges[i][2]) - 1>>]
        outs(v) == SelectSeq(es, LAMBDA e : e[1] = v /\ e[2] # v)
        ins(v) == SelectSeq(es, LAMBDA e : e[2] = v /\ e[1] # v)
    IN  [nodes |-> g.nodes,
         C |-> n,
         M |-> Len(es),
         loops |-> [v \in Ids(n) |-> Cardinality({i \in DOMAIN es : es[i] = <<v, v>>})],
         totalInWeights |->
             [v \in Ids(n) |-> Cardinality({i \in DOMAIN es : es[i][2] = v})],
         totalOutWeights |->
             [v \in Ids(n) |-> Cardinality({i \in DOMAIN es : es[i][1] = v})],
         outNeighbors |->
             [v \in Ids(n) |-> Reverse([j \in DOMAIN outs(v) |-> Neighbor(outs(v)[j][2], 1)])],
         inNeighbors |->
             [v \in Ids(n) |-> Reverse([j \in DOMAIN ins(v) |-> Neighbor(ins(v)[j][1], 1)])],
         belongings |-> [v \in Ids(n) |-> v],
         counts |-> [v \in Ids(n) |-> 1],
         unused |-> <<>>,
         dendrogram |-> <<[v \in Ids(n) |-> v]>>,
         level |-> 0,
         queue |-> <<>>,
         moved |-> FALSE]

(* the gain of a node that never leaves its community *)
delta_NoGain(ix, i, inWeight, outWeight, weightTo, c) == -1

(* DirectedLouvainIndex.delta, as a number of 1/(100 M^2) *)
delta(ix, i, inWeight, outWeight, weightTo, c) ==
    100 * weightTo * ix.M
        - ResolutionPercent * ((outWeight + ix.loops[i]) * ix.totalInWeights[c]
                                + (inWeight + ix.loops[i]) * ix.totalOutWeights[c])

(* DirectedLouvainIndex.deltaWithOwnCommunity, as a number of 1/(100 M^2) *)
deltaWithOwnCommunity(ix, i, inWeight, outWeight, weightTo, c) ==
    100 * weightTo * ix.M
        - ResolutionPercent *
            ((outWeight + ix.loops[i]) * (ix.totalInWeights[c] - (inWeight + ix.loops[i]))
              + (inWeight + ix.loops[i]) * (ix.totalOutWeights[c] - (outWeight + ix.loops[i])))

(* tieBreaker(bestCommunity, currentCommunity, targetCommunity, delta, bestDelta) *)
tieBreaker(bestCommunity, currentCommunity, targetCommunity, d, bestDelta) ==
    IF d = bestDelta
    THEN bestCommunity # currentCommunity /\ targetCommunity > bestCommunity
    ELSE d > bestDelta

(* the loop over the neighbouring communities *)
RECURSIVE BestMove(_, _, _)
BestMove(cands, own, best) ==
    IF cands = <<>> THEN best
    ELSE LET c == Head(cands)
         IN  BestMove(Tail(cands), own,
                 IF c.community # own
                    /\ tieBreaker(best.community, own, c.community, c.delta, best.delta)
                 THEN c ELSE best)

(* DirectedLouvainIndex.isolate *)
isolate(ix, i, inWeight, outWeight) ==
    LET own == ix.belongings[i]
        fresh == ix.unused[Len(ix.unused)]
        loop == ix.loops[i]
    IN  [ix EXCEPT
            !.unused = SubSeq(@, 1, Len(@) - 1),
            !.totalInWeights = [@ EXCEPT ![own] = @ - (inWeight + loop),
                                         ![fresh] = @ + (inWeight + loop)],
            !.totalOutWeights = [@ EXCEPT ![own] = @ - (outWeight + loop),
                                          ![fresh] = @ + (outWeight + loop)],
            !.belongings = [@ EXCEPT ![i] = fresh],
            !.counts = [@ EXCEPT ![own] = @ - 1, ![fresh] = @ + 1]]

(* DirectedLouvainIndex.move *)
move(ix, i, inWeight, outWeight, target) ==
    LET own == ix.belongings[i]
        loop == ix.loops[i]
    IN  [ix EXCEPT
            !.unused = IF ix.counts[own] = 1 THEN Append(@, own) ELSE @,
            !.totalInWeights = [@ EXCEPT ![own] = @ - (inWeight + loop),
                                         ![target] = @ + (inWeight + loop)],
            !.totalOutWeights = [@ EXCEPT ![own] = @ - (outWeight + loop),
                                          ![target] = @ + (outWeight + loop)],
            !.belongings = [@ EXCEPT ![i] = target],
            !.counts = [@ EXCEPT ![own] = @ - 1, ![target] = @ + 1]]

(* after a move: the neighbours outside the new community are queued again *)
Requeue(ix, i) ==
    LET nb == ix.outNeighbors[i] \o ix.inNeighbors[i]
        outside == SelectSeq([j \in DOMAIN nb |-> nb[j].node],
                             LAMBDA p : ix.belongings[p] # ix.belongings[i])
    IN  [ix EXCEPT !.moved = TRUE, !.queue = EnqueueEach(@, outside)]

(* the start of a pass: every node is queued, from a start index on *)
StartPass(ix, start) ==
    [ix EXCEPT !.queue = [l \in 1..ix.C |-> (start + l - 1) % ix.C], !.moved = FALSE]

(* one turn of the loop `while (queue.size !== 0)` *)
Visit(ix) ==
    LET i == Head(ix.queue)
        own == ix.belongings[i]
        nb == ix.outNeighbors[i] \o ix.inNeighbors[i]
        outWeight == SumWeights(ix.outNeighbors[i])
        inWeight == SumWeights(ix.inNeighbors[i])
        commOf == [j \in DOMAIN nb |-> ix.belongings[nb[j].node]]
        weightTo(c) == SumSeq([j \in DOMAIN nb |-> IF commOf[j] = c THEN nb[j].weight ELSE 0])
        dense == Dense(commOf)
        cands == [j \in DOMAIN dense |->
                     [community |-> dense[j],
                      delta |-> delta(ix, i, inWeight, outWeight, weightTo(dense[j]), dense[j])]]
        best == BestMove(cands, own,
                    [community |-> own,
                     delta |-> deltaWithOwnCommunity(ix, i, inWeight, outWeight,
                                                     weightTo(own), own)])
        dequeued == [ix EXCEPT !.queue = Tail(@)]
    IN  IF best.delta < 0
        THEN IF ix.counts[own] = 1 THEN dequeued
             ELSE Requeue(isolate(dequeued, i, inWeight, outWeight), i)
        ELSE IF best.community = own THEN dequeued
             ELSE Requeue(move(dequeued, i, inWeight, outWeight, best.community), i)

(* DirectedLouvainIndex.zoomOut: the communities become the nodes of the next level *)
zoomOut(ix) ==
    LET C == ix.C
        bel == ix.belongings
        olds == {bel[t] : t \in Ids(C)}
        first(o) == CHOOSE t \in Ids(C) : bel[t] = o /\ \A u \in Ids(C) : bel[u] = o => t <= u
        label == [o \in olds |-> Cardinality({p \in olds : first(p) < first(o)})]
        m == Cardinality(olds)
        newBel == [t \in Ids(C) |-> label[bel[t]]]
        old(c) == CHOOSE o \in olds : label[o] = c
        members(c) == {t \in Ids(C) : newBel[t] = c}
        toward(nb, a) == SumSeq([j \in DOMAIN nb |->
                              IF newBel[nb[j].node] = a THEN nb[j].weight ELSE 0])
        outAdj(c, a) == SumOver(members(c), [t \in members(c) |-> toward(ix.outNeighbors[t], a)])
        inAdj(c, a) == SumOver(members(c), [t \in members(c) |-> toward(ix.inNeighbors[t], a)])
        internal(c) == SumOver(members(c),
                           [t \in members(c) |-> ix.loops[t] + toward(ix.outNeighbors[t], c)])
        outKeys(c) == Ascending({a \in Ids(m) \ {c} : outAdj(c, a) > 0})
        inKeys(c) == Ascending({a \in Ids(m) \ {c} : inAdj(c, a) > 0})
        top == ix.dendrogram[ix.level + 1]
    IN  [nodes |-> ix.nodes,
         C |-> m,
         M |-> ix.M,
         loops |-> [c \in Ids(m) |-> internal(c)],
         totalInWeights |-> [c \in Ids(m) |-> ix.totalInWeights[old(c)]],
         totalOutWeights |-> [c \in Ids(m) |-> ix.totalOutWeights[old(c)]],
         outNeighbors |->
             [c \in Ids(m) |-> [j \in DOMAIN outKeys(c) |->
                                   Neighbor(outKeys(c)[j], outAdj(c, outKeys(c)[j]))]],
         inNeighbors |->
             [c \in Ids(m) |-> [j \in DOMAIN inKeys(c) |->
                                   Neighbor(inKeys(c)[j], inAdj(c, inKeys(c)[j]))]],
         belongings |-> [c \in Ids(m) |-> c],
         counts |-> [c \in Ids(m) |-> 1],
         unused |-> <<>>,
         dendrogram |-> Append(ix.dendrogram, [v \in DOMAIN top |-> newBel[top[v]]]),
         level |-> ix.level + 1,
         queue |-> <<>>,
         moved |-> FALSE]

(* DirectedLouvainIndex.modularity *)
modularity(ix) ==
    LET sameCommunity(e) ==
            SumSeq([j \in DOMAIN ix.outNeighbors[e] |->
                       IF ix.belongings[ix.outNeighbors[e][j].node] = ix.belongings[e]
                       THEN ix.outNeighbors[e][j].weight ELSE 0])
        internal(c) == SumOver({e \in Ids(ix.C) : ix.belongings[e] = c},
                           [e \in Ids(ix.C) |-> ix.loops[e] + sameCommunity(e)])
        term == [c \in Ids(ix.C) |->
                    100 * ix.M * internal(c)
                      - ResolutionPercent * ix.totalInWeights[c] * ix.totalOutWeights[c]]
    IN  Ratio(SumOver(Ids(ix.C), term), 100 * ix.M * ix.M)

(* a collect that loses the node added last *)
collect_LosesNode(ix) ==
    [n \in Range(SubSeq(ix.nodes, 1, Len(ix.nodes) - 1)) |->
        ix.dendrogram[ix.level + 1][(CHOOSE i \in DOMAIN ix.nodes : ix.nodes[i] = n) - 1]]

(* DirectedLouvainIndex.collect: node -> community at the last level *)
collect(ix) ==
    [n \in Range(ix.nodes) |->
        ix.dendrogram[ix.level + 1][(CHOOSE i \in DOMAIN ix.nodes : ix.nodes[i] = n) - 1]]

(* louvain.detailed on a graph without edges *)
louvainWithoutEdges(g) ==
    ("communities" :> SingletonCommunities(g)) @@ ("count" :> Order(g))
        @@ ("level" :> 0) @@ ("modularity" :> NaN) @@ ("resolution" :> ResolutionPercent)

(* louvain.detailed: the object built from the finished index *)
louvainDetailed(ix) ==
    ("communities" :> collect(ix)) @@ ("count" :> ix.C) @@ ("level" :> ix.level)
        @@ ("modularity" :> modularity(ix)) @@ ("resolution" :> ResolutionPercent)

(* a density without the library's guard for fewer than two nodes *)
density_Unguarded(g) == Ratio(Size(g), Order(g) * (Order(g) - 1))

(* density(graph) *)
density(g) ==
    IF Order(g) < 2 THEN Zero
    ELSE Ratio(Size(g), Order(g) * (Order(g) - 1))

(* degreeCentrality, inDegreeCentrality, outDegreeCentrality: degree * 1/(order-1) *)
degreeCentrality(g) ==
    [n \in Range(g.nodes) |-> Ratio(InDegree(g, n) + OutDegree(g, n), Order(g) - 1)]

inDegreeCentrality(g) ==
    [n \in Range(g.nodes) |-> Ratio(InDegree(g, n), Order(g) - 1)]

outDegreeCentrality(g) ==
    [n \in Range(g.nodes) |-> Ratio(OutDegree(g, n), Order(g) - 1)]

----------------------------------------------------------------------------
(* CodeModularityAuditor: the three readers *)

LouvainOutcomes == {"details", "falsy", "throws"}

(* try { return louvain.detailed(graph, options) || {} } catch { return {} } *)
detectCommunities(g, outcome, details) ==
    IF ~IsGraph(g) \/ outcome = "throws" THEN EmptyObj
    ELSE IF outcome = "falsy" THEN EmptyObj
    ELSE details

readDensity(g) ==
    IF ~IsGraph(g) THEN "density" :> Null
    ELSE "density" :> density(g)

readDegreeCentralities(g) ==
    IF ~IsGraph(g)
    THEN ("degreeCentrality" :> Null) @@ ("inDegreeCentrality" :> Null)
            @@ ("outDegreeCentrality" :> Null)
    ELSE ("degreeCentrality" :> degreeCentrality(g))
            @@ ("inDegreeCentrality" :> inDegreeCentrality(g))
            @@ ("outDegreeCentrality" :> outDegreeCentrality(g))

----------------------------------------------------------------------------
(* startModularityAudit *)

Init ==
    /\ pc = "Start"
    /\ tree = <<>>
    /\ svg = NoSvg
    /\ rest = EmptyObj
    /\ treeData = [ok |-> FALSE, items |-> {}]
    /\ nodesTodo = <<>>
    /\ edgesTodo = <<>>
    /\ graph = EmptyGraph
    /\ bundle = EmptyObj
    /\ result = EmptyObj
    /\ returned = "pending"
    /\ history = [madge |-> "pending", build |-> "none", louvain |-> "none", metric |-> "none",
                  extracted |-> EmptyObj]
    /\ reports = <<>>
    /\ idx = 0
    /\ index = Null
    /\ cli = NotStarted
    /\ fs = NoFiles
    /\ match = NoMatcher

Truthy(name) == name # ""

(* a run that goes on to the metrics with the null graph *)
GraphMissing_Never(g) == FALSE

(* line 331: if (!louvainGraph) *)
GraphMissing(g) == ~IsGraph(g)

(* lines 324-328: the extractor is called and its answer destructured *)
BuildTree ==
    /\ pc = "Start"
    /\ \E kind \in MadgeOutcomes, t \in Trees, s \in Svgs, r \in Rests :
          LET built == buildDirectoryTree(kind, t, s, r) IN
          /\ history' = [history EXCEPT
                            !.madge = IF DOMAIN built = {} /\ kind = "ok" THEN "empty"
                                      ELSE kind,
                            !.extracted = IF DOMAIN built = {} THEN EmptyObj ELSE r]
          /\ IF NothingToAudit(built)
             THEN /\ pc' = "Done"
                  /\ result' = EmptyObj
                  /\ returned' = "object"
                  /\ UNCHANGED <<tree, svg, rest>>
             ELSE /\ pc' = "TreeBuilt"
                  /\ tree' = built["tree"]
                  /\ svg' = built["treeVisualization"]
                  /\ rest' = RestOf(built)
                  /\ UNCHANGED <<result, returned>>
    /\ UNCHANGED <<treeData, nodesTodo, edgesTodo, graph, bundle, reports, idx, index, cli, fs, match>>

(* buildLouvainGraph, lines 59-61 *)
EnterBuild ==
    /\ pc = "TreeBuilt"
    /\ LET norm == normalizeProjectTree(tree) IN
          /\ nodesTodo' = Reverse(SelectSeq(norm.nodes, Truthy))
          /\ edgesTodo' = Reverse(norm.edges)
    /\ treeData' = retrieveProjectTreeData(svg)
    /\ graph' = EmptyGraph
    /\ pc' = "AddNodes"
    /\ UNCHANGED <<tree, svg, rest, bundle, result, returned, history, reports, idx, index, cli, fs, match>>

(* the catch of buildLouvainGraph, lines 81-84 *)
BuildThrew(why) ==
    /\ graph' = Null
    /\ pc' = "GraphReturned"
    /\ history' = [history EXCEPT !.build = why]
    /\ UNCHANGED <<nodesTodo, edgesTodo>>

(* lines 63-71: one turn of the node forEach *)
AddNodeStep ==
    /\ pc = "AddNodes"
    /\ nodesTodo # <<>>
    /\ LET node == Head(nodesTodo)
           found == {item \in treeData.items : item.title = node}
       IN  IF ~treeData.ok
           THEN BuildThrew("layout")
           ELSE IF found # {} /\ AddNodeThrows(graph, node)
           THEN BuildThrew("nodeExists")
           ELSE /\ graph' = IF found = {} THEN graph
                             ELSE LET nodeData == CHOOSE item \in found : TRUE
                                  IN  AddNode(graph, nodeData.title,
                                              [x |-> nodeData.x, y |-> nodeData.y])
                /\ nodesTodo' = Tail(nodesTodo)
                /\ pc' = IF Tail(nodesTodo) = <<>> THEN "AddEdges" ELSE "AddNodes"
                /\ UNCHANGED <<edgesTodo, history>>
    /\ UNCHANGED <<tree, svg, rest, treeData, bundle, result, returned, reports, idx, index, cli, fs, match>>

(* an edge forEach that runs while the node forEach is still going *)
AddEdgeStep_DuringNodes ==
    /\ pc \in {"AddNodes", "AddEdges"}
    /\ edgesTodo # <<>>
    /\ LET source == Head(edgesTodo)[1]
           target == Head(edgesTodo)[2]
       IN  IF AddEdgeThrows(graph, source, target)
           THEN /\ pc = "AddEdges"
                /\ BuildThrew(IF HasNode(graph, source) /\ HasNode(graph, target)
                              THEN "edgeExists" ELSE "endpoint")
           ELSE /\ graph' = AddEdge(graph, source, target)
                /\ edgesTodo' = Tail(edgesTodo)
                /\ UNCHANGED <<pc, nodesTodo, history>>
    /\ UNCHANGED <<tree, svg, rest, treeData, bundle, result, returned, reports, idx, index, cli, fs, match>>

(* lines 73-78: one turn of the edge forEach *)
AddEdgeStep ==
    /\ pc = "AddEdges"
    /\ edgesTodo # <<>>
    /\ LET source == Head(edgesTodo)[1]
           target == Head(edgesTodo)[2]
       IN  IF AddEdgeThrows(graph, source, target)
           THEN BuildThrew(IF HasNode(graph, source) /\ HasNode(graph, target)
                           THEN "edgeExists" ELSE "endpoint")
           ELSE /\ graph' = AddEdge(graph, source, target)
                /\ edgesTodo' = Tail(edgesTodo)
                /\ UNCHANGED <<pc, nodesTodo, history>>
    /\ UNCHANGED <<tree, svg, rest, treeData, bundle, result, returned, reports, idx, index, cli, fs, match>>

(* line 80: return projectGraph *)
ReturnGraph ==
    /\ pc = "AddEdges"
    /\ edgesTodo = <<>>
    /\ pc' = "GraphReturned"
    /\ UNCHANGED <<tree, svg, rest, treeData, nodesTodo, edgesTodo, graph, bundle,
                   result, returned, history, reports, idx, index, cli, fs, match>>

(* lines 331-333 *)
ReturnEmpty ==
    /\ pc = "GraphReturned"
    /\ GraphMissing(graph)
    /\ pc' = "Done"
    /\ result' = EmptyObj
    /\ returned' = "object"
    /\ UNCHANGED <<tree, svg, rest, treeData, nodesTodo, edgesTodo, graph, bundle,
                   history, reports, idx, index, cli, fs, match>>

(* louvain.assign: the community of every node is written to its attributes *)
GraphAfterLouvain_Assigns(g, communities) ==
    [g EXCEPT !.attrs = [n \in DOMAIN @ |-> ("community" :> communities[n]) @@ @[n]]]

(* louvain.detailed only reads the graph *)
GraphAfterLouvain(g, communities) == g

(* lines 335-340: the object literal up to the call of detectCommunities; *)
(* louvain.detailed answers at once for a graph without edges              *)
DetectCommunities ==
    /\ pc = "GraphReturned"
    /\ ~GraphMissing(graph)
    /\ \E outcome \in LouvainOutcomes :
          LET base == Spread(rest, ("tree" :> tree) @@ ("svg" :> svg)
                                       @@ ("graph" :> graph))
              real == IF IsGraph(graph) THEN outcome ELSE "throws"
          IN  /\ history' = [history EXCEPT !.louvain = real]
              /\ IF real = "details" /\ Size(graph) > 0
                 THEN /\ index' = NewIndex(graph)
                      /\ bundle' = base
                      /\ pc' = "LouvainPass"
                      /\ graph' = graph
                 ELSE /\ index' = index
                      /\ bundle' = Spread(base,
                             detectCommunities(graph, real,
                                 IF IsGraph(graph) THEN louvainWithoutEdges(graph)
                                 ELSE EmptyObj))
                      /\ graph' = IF real = "details"
                                  THEN GraphAfterLouvain(graph,
                                           louvainWithoutEdges(graph)["communities"])
                                  ELSE graph
                      /\ pc' = "Communities"
    /\ UNCHANGED <<tree, svg, rest, treeData, nodesTodo, edgesTodo, result,
                   returned, reports, idx, cli, fs, match>>

(* louvain: a pass starts at a random index (randomWalk, rng = Math.random) *)
LouvainPass ==
    /\ pc = "LouvainPass"
    /\ \E start \in Ids(index.C) : index' = StartPass(index, start)
    /\ pc' = "LouvainMoves"
    /\ UNCHANGED <<tree, svg, rest, treeData, nodesTodo, edgesTodo, graph, bundle,
                   result, returned, history, reports, idx, cli, fs, match>>

(* louvain: one node leaves the queue and is moved where the gain is best *)
LouvainVisit ==
    /\ pc = "LouvainMoves"
    /\ index.queue # <<>>
    /\ index' = Visit(index)
    /\ UNCHANGED <<pc, tree, svg, rest, treeData, nodesTodo, edgesTodo, graph, bundle,
                   result, returned, history, reports, idx, cli, fs, match>>

(* louvain: a loop that builds the next level whether or not a node moved *)
LouvainZoomOut_Always ==
    /\ pc = "LouvainMoves"
    /\ index.queue = <<>>
    /\ index' = zoomOut(index)
    /\ pc' = "LouvainPass"
    /\ UNCHANGED <<tree, svg, rest, treeData, nodesTodo, edgesTodo, graph, bundle,
                   result, returned, history, reports, idx, cli, fs, match>>

(* louvain: the pass moved something, the next level is built *)
LouvainZoomOut ==
    /\ pc = "LouvainMoves"
    /\ index.queue = <<>>
    /\ index.moved
    /\ index' = zoomOut(index)
    /\ pc' = "LouvainPass"
    /\ UNCHANGED <<tree, svg, rest, treeData, nodesTodo, edgesTodo, graph, bundle,
                   result, returned, history, reports, idx, cli, fs, match>>

(* louvain: a pass without a move ends the algorithm; the details are spread *)
LouvainReturn ==
    /\ pc = "LouvainMoves"
    /\ index.queue = <<>>
    /\ ~index.moved
    /\ bundle' = Spread(bundle, detectCommunities(graph, "details", louvainDetailed(index)))
    /\ graph' = GraphAfterLouvain(graph, louvainDetailed(index)["communities"])
    /\ pc' = "Communities"
    /\ UNCHANGED <<tree, svg, rest, treeData, nodesTodo, edgesTodo, result,
                   returned, history, reports, idx, index, cli, fs, match>>

(* what a call of a metric of graphology-metrics can do *)
MetricOutcomes == {"value", "throws"}

(* lines 344-347: the catch of startModularityAudit *)
AuditThrew(what) ==
    /\ result' = EmptyObj
    /\ returned' = "object"
    /\ pc' = "Done"
    /\ history' = [history EXCEPT !.metric = what]
    /\ UNCHANGED bundle

(* line 341: readDensity has no catch of its own *)
ReadDensity ==
    /\ pc = "Communities"
    /\ \E outcome \in MetricOutcomes :
          IF outcome = "throws"
          THEN AuditThrew("density")
          ELSE /\ bundle' = Spread(bundle, readDensity(graph))
               /\ pc' = "Density"
               /\ UNCHANGED <<result, returned, history>>
    /\ UNCHANGED <<tree, svg, rest, treeData, nodesTodo, edgesTodo, graph, reports,
                   idx, index, cli, fs, match>>

(* lines 342-343: the last spread, and the return of the finished object; *)
(* readDegreeCentralities has no catch of its own                         *)
ReadDegreeCentralities ==
    /\ pc = "Density"
    /\ \E outcome \in MetricOutcomes :
          IF outcome = "throws"
          THEN AuditThrew("centrality")
          ELSE /\ bundle' = Spread(bundle, readDegreeCentralities(graph))
               /\ result' = bundle'
               /\ returned' = "object"
               /\ pc' = "Done"
               /\ UNCHANGED history
    /\ UNCHANGED <<tree, svg, rest, treeData, nodesTodo, edgesTodo, graph, reports,
                   idx, index, cli, fs, match>>

Next ==
    \/ BuildTree
    \/ EnterBuild
    \/ AddNodeStep
    \/ AddEdgeStep
    \/ ReturnGraph
    \/ ReturnEmpty
    \/ DetectCommunities
    \/ LouvainPass
    \/ LouvainVisit
    \/ LouvainZoomOut
    \/ LouvainReturn
    \/ ReadDensity
    \/ ReadDegreeCentralities

Spec == Init /\ [][Next]_vars

----------------------------------------------------------------------------
(* The metrics on larger graphs: runs that start where buildLouvainGraph has *)
(* returned the graph of a mapping whose modules are all placed and whose    *)
(* dependency lists name each module once                                    *)

MaxGraphEdges == 6

MetricModules == <<"a", "b", "c">>

(* Scenario D of the specification: two separate pairs *)
ScenarioD ==
    <<[file |-> "a", dependencies |-> <<"b">>], [file |-> "b", dependencies |-> <<>>],
      [file |-> "c", dependencies |-> <<"d">>], [file |-> "d", dependencies |-> <<>>]>>

MetricTrees ==
    {ScenarioD} \cup
    UNION {{[i \in 1..n |->
                [file |-> MetricModules[i],
                 dependencies |-> [j \in DOMAIN Ascending(d[i]) |->
                                      MetricModules[Ascending(d[i])[j]]]]] :
               d \in {e \in [1..n -> SUBSET (1..n)] :
                         SumSeq([i \in 1..n |-> Cardinality(e[i])]) <= MaxGraphEdges}} :
           n \in 1..Len(MetricModules)}

PlacedSvg(t) == [kind |-> "svg", titles |-> Range(Keys(t))]

(* buildLouvainGraph, lines 63-71: the node forEach *)
RECURSIVE addNodes(_, _, _)
addNodes(g, todo, data) ==
    IF todo = <<>> \/ ~IsGraph(g) THEN g
    ELSE LET node == Head(todo)
             found == {item \in data.items : item.title = node}
         IN  IF ~data.ok \/ (found # {} /\ AddNodeThrows(g, node)) THEN Null
             ELSE addNodes(IF found = {} THEN g
                           ELSE LET nodeData == CHOOSE item \in found : TRUE
                                IN  AddNode(g, nodeData.title,
                                            [x |-> nodeData.x, y |-> nodeData.y]),
                           Tail(todo), data)

(* buildLouvainGraph, lines 73-78: the edge forEach *)
RECURSIVE addEdges(_, _)
addEdges(g, todo) ==
    IF todo = <<>> \/ ~IsGraph(g) THEN g
    ELSE IF AddEdgeThrows(g, Head(todo)[1], Head(todo)[2]) THEN Null
    ELSE addEdges(AddEdge(g, Head(todo)[1], Head(todo)[2]), Tail(todo))

(* buildLouvainGraph as a whole: the graph, or null when anything threw *)
buildLouvainGraph(t, s) ==
    LET norm == normalizeProjectTree(t)
    IN  addEdges(addNodes(EmptyGraph, Reverse(SelectSeq(norm.nodes, Truthy)),
                          retrieveProjectTreeData(s)),
                 Reverse(norm.edges))

InitMetrics ==
    /\ pc = "GraphReturned"
    /\ tree \in MetricTrees
    /\ svg = PlacedSvg(tree)
    /\ rest \in Rests
    /\ treeData = retrieveProjectTreeData(svg)
    /\ nodesTodo = <<>>
    /\ edgesTodo = <<>>
    /\ graph = buildLouvainGraph(tree, svg)
    /\ bundle = EmptyObj
    /\ result = EmptyObj
    /\ returned = "pending"
    /\ history = [madge |-> "ok", build |-> "none", louvain |-> "none", metric |-> "none",
                  extracted |-> rest]
    /\ reports = <<>>
    /\ idx = 0
    /\ index = Null
    /\ cli = NotStarted
    /\ fs = NoFiles
    /\ match = NoMatcher

NextMetrics ==
    \/ DetectCommunities
    \/ LouvainPass
    \/ LouvainVisit
    \/ LouvainZoomOut
    \/ LouvainReturn
    \/ ReadDensity
    \/ ReadDegreeCentralities

SpecMetrics == InitMetrics /\ [][NextMetrics]_vars

----------------------------------------------------------------------------
(* The tree normalizer on its own: any mapping the extractor can hand back, *)
(* the empty one included                                                   *)

InitNormalize ==
    /\ pc = "NormalizeStart"
    /\ tree \in Trees
    /\ svg = NoSvg
    /\ rest = EmptyObj
    /\ treeData = [ok |-> FALSE, items |-> {}]
    /\ nodesTodo = <<>>
    /\ edgesTodo = <<>>
    /\ graph = EmptyGraph
    /\ bundle = EmptyObj
    /\ result = EmptyObj
    /\ returned = "pending"
    /\ history = [madge |-> "ok", build |-> "none", louvain |-> "none", metric |-> "none",
                  extracted |-> rest]
    /\ reports = <<>>
    /\ idx = 0
    /\ index = Null
    /\ cli = NotStarted
    /\ fs = NoFiles
    /\ match = NoMatcher

(* normalizeProjectTree(tree) is called and returns {nodes, edges} *)
Normalize ==
    /\ pc = "NormalizeStart"
    /\ LET norm == normalizeProjectTree(tree)
       IN  result' = ("nodes" :> norm.nodes) @@ ("edges" :> norm.edges)
    /\ returned' = "object"
    /\ pc' = "Normalized"
    /\ UNCHANGED <<tree, svg, rest, treeData, nodesTodo, edgesTodo, graph, bundle,
                   history, reports, idx, index, cli, fs, match>>

NextNormalize == Normalize

SpecNormalize == InitNormalize /\ [][NextNormalize]_vars

----------------------------------------------------------------------------
(* CodeCouplingAuditor.startAudit *)

CouplingSvgs == {s \in Svgs : s.titles = {}}

(* an efferent count of the distinct entries *)
efferentCoupling_Distinct(dependencies) == Cardinality(Range(dependencies))

(* dependencies?.length || 0 *)
efferentCoupling(dependencies) == Len(dependencies)

(* an afferent count that does not leave the module itself out *)
afferentCoupling_CountsSelf(reps, file) ==
    Cardinality({i \in DOMAIN reps : file \in Range(reps[i]["dependencies"])})

(* reports.filter(item => item.file !== file && item.dependencies?.includes(file)).length *)
afferentCoupling(reps, file) ==
    Cardinality({i \in DOMAIN reps :
        reps[i]["file"] # file /\ file \in Range(reps[i]["dependencies"])})

Divide(n, d) == Ratio(n, d)

(* x || 0 : NaN and 0 are falsy *)
OrZero(q) == IF IsNaN(q) \/ q.num = 0 THEN Zero ELSE q

(* a formatting that cuts the digits after the second decimal off *)
toFixed2_Truncating(q) ==
    LET hundredths == (100 * q.num) \div q.den
    IN  [units |-> hundredths \div 100, cents |-> hundredths % 100]

(* Number.prototype.toFixed(2): the nearest number of hundredths, written as *)
(* "units.cents" with two digits of cents                                    *)
toFixed2(q) ==
    LET hundredths == (200 * q.num + q.den) \div (2 * q.den)
    IN  [units |-> hundredths \div 100, cents |-> hundredths % 100]

instabilityIndex(efferent, afferent) ==
    toFixed2(OrZero(Divide(efferent, efferent + afferent)))

(* lines 57-62 *)
couplingReportsOf(t) ==
    [i \in DOMAIN t |-> ("file" :> t[i].file) @@ ("dependencies" :> t[i].dependencies)]

(* lines 67-94: the body of the loop, for the report at position i *)
coupleReport(reps, i) ==
    LET efferent == efferentCoupling(reps[i]["dependencies"])
        afferent == afferentCoupling(reps, reps[i]["file"])
    IN  [reps EXCEPT ![i] =
            ("instabilityIndex" :> instabilityIndex(efferent, afferent))
                @@ ("afferentCoupling" :> afferent)
                @@ ("efferentCoupling" :> efferent) @@ @]

InitCoupling ==
    /\ pc = "CouplingStart"
    /\ tree = <<>>
    /\ svg = NoSvg
    /\ rest = EmptyObj
    /\ treeData = [ok |-> FALSE, items |-> {}]
    /\ nodesTodo = <<>>
    /\ edgesTodo = <<>>
    /\ graph = EmptyGraph
    /\ bundle = EmptyObj
    /\ result = EmptyObj
    /\ returned = "pending"
    /\ history = [madge |-> "pending", build |-> "none", louvain |-> "none", metric |-> "none",
                  extracted |-> EmptyObj]
    /\ reports = <<>>
    /\ idx = 0
    /\ index = Null
    /\ cli = NotStarted
    /\ fs = NoFiles
    /\ match = NoMatcher

(* lines 43-65 *)
CouplingParse ==
    /\ pc = "CouplingStart"
    /\ \E kind \in MadgeOutcomes, t \in CouplingTrees, s \in CouplingSvgs, r \in Rests :
          /\ history' = [history EXCEPT !.madge =
                            IF kind = "ok" /\ ~TruthyTree(t) THEN "empty" ELSE kind]
          /\ IF kind # "ok" \/ ~TruthyTree(t)
                   \/ Len(couplingReportsOf(t)) = 0
             THEN /\ pc' = "Done"
                  /\ result' = EmptyObj
                  /\ returned' = "object"
                  /\ UNCHANGED <<tree, svg, rest, reports, idx, index, cli, fs, match>>
             ELSE /\ pc' = "CouplingLoop"
                  /\ tree' = t
                  /\ svg' = s
                  /\ rest' = r
                  /\ reports' = couplingReportsOf(t)
                  /\ idx' = 1
                  /\ UNCHANGED <<result, returned>>
    /\ UNCHANGED <<treeData, nodesTodo, edgesTodo, graph, bundle, index, cli, fs, match>>

(* lines 67-94: one turn of the for-of loop *)
CouplingStep ==
    /\ pc = "CouplingLoop"
    /\ idx <= Len(reports)
    /\ reports' = coupleReport(reports, idx)
    /\ idx' = idx + 1
    /\ UNCHANGED <<pc, tree, svg, rest, treeData, nodesTodo, edgesTodo, graph, bundle,
                   result, returned, history, index, cli, fs, match>>

(* lines 96-105 *)
CouplingReturn ==
    /\ pc = "CouplingLoop"
    /\ idx > Len(reports)
    /\ result' = Spread(("tree" :> tree) @@ rest,
                        ("svg" :> svg) @@ ("reports" :> reports))
    /\ returned' = "object"
    /\ pc' = "Done"
    /\ UNCHANGED <<tree, svg, rest, treeData, nodesTodo, edgesTodo, graph, bundle,
                   history, reports, idx, index, cli, fs, match>>

NextCoupling ==
    \/ CouplingParse
    \/ CouplingStep
    \/ CouplingReturn

SpecCoupling == InitCoupling /\ [][NextCoupling]_vars

----------------------------------------------------------------------------
(* Properties of the modularity audit *)

MetricKeys ==
    {"modularity", "communities", "density", "degreeCentrality",
     "inDegreeCentrality", "outDegreeCentrality"}

BundleKeys == {"tree", "graph"} \cup MetricKeys

IsEmptyObject(o) == DOMAIN o = {}

TreeEdges(t) == Range(normalizeProjectTree(t).edges)

(* the modules of the tree that the parsed diagram places *)
PlacedModules(t, s) == Range(Keys(t)) \cap s.titles

DanglingEdges(t, s) ==
    {e \in TreeEdges(t) : e[1] \notin PlacedModules(t, s) \/ e[2] \notin PlacedModules(t, s)}

HasDuplicateDependency(t) ==
    \E i \in DOMAIN t : \E j, k \in DOMAIN t[i].dependencies :
        j # k /\ t[i].dependencies[j] = t[i].dependencies[k]

AuditFailed ==
    history.madge # "ok" \/ history.build # "none"

(* C1: startModularityAudit never throws and never returns null; whenever the *)
(* extractor fails or hands back nothing usable, or graph construction raises *)
(* an exception, the value returned is exactly the empty object.              *)
C1_EmptyObjectOnFailure ==
    pc = "Done" =>
        /\ returned = "object"
        /\ AuditFailed => IsEmptyObject(result)

C1_Witness ==
    /\ pc = "Done"
    /\ history.madge = "ok"
    /\ history.build = "endpoint"
    /\ returned = "object"
    /\ IsEmptyObject(result)

(* C2: the result of a run is never partial: it is {} or it holds tree, graph *)
(* and all six metrics.                                                       *)
C2_NeverPartial ==
    pc = "Done" => IsEmptyObject(result) \/ BundleKeys \subseteq DOMAIN result

(* C3: a diagram that is present but cannot be parsed does not block the      *)
(* metrics: the graph holds every module of the tree and the result carries   *)
(* all six metrics.                                                           *)
C3_LayoutNeverBlocks ==
    pc = "Done" /\ history.madge = "ok" /\ svg.kind = "unparseable" =>
        /\ MetricKeys \subseteq DOMAIN result
        /\ Has(result, "graph")
        /\ Range(result["graph"].nodes) = Range(Keys(tree))

(* C4: an edge with an endpoint outside the node set is dropped silently: the *)
(* other edges are inserted and the run still returns its metrics.            *)
C4_DanglingEdgeDropped ==
    pc = "Done" /\ history.madge = "ok" /\ svg.kind = "svg"
        /\ ~HasDuplicateDependency(tree) /\ DanglingEdges(tree, svg) # {} =>
        /\ {"graph", "density"} \subseteq DOMAIN result
        /\ Range(result["graph"].edges) = TreeEdges(tree) \ DanglingEdges(tree, svg)

(* C5: a dependency listed twice is inserted once: construction succeeds, the *)
(* graph holds exactly one edge for the pair and the run returns its metrics. *)
C5_DuplicateEdgeNoOp ==
    pc = "Done" /\ history.madge = "ok" /\ svg.kind = "svg"
        /\ HasDuplicateDependency(tree) /\ DanglingEdges(tree, svg) = {} =>
        /\ {"graph", "density"} \subseteq DOMAIN result
        /\ Range(result["graph"].edges) = TreeEdges(tree)
        /\ Len(result["graph"].edges) = Cardinality(TreeEdges(tree))

(* C10: the reported density is edgeCount / (n * (n - 1)) for a graph of      *)
(* n >= 2 nodes and exactly 0 for a graph of 0 or 1 nodes.                    *)
C10_DensityFormula ==
    pc = "Done" /\ Has(result, "density") =>
        LET n == Cardinality(Range(result["graph"].nodes))
            edgeCount == Cardinality(Range(result["graph"].edges))
            d == result["density"]
        IN  IF n >= 2
            THEN d.den # 0 /\ d.num * (n * (n - 1)) = edgeCount * d.den
            ELSE d = Zero

C10_Witness ==
    /\ pc = "Done"
    /\ Has(result, "density")
    /\ Order(result["graph"]) >= 2
    /\ Size(result["graph"]) >= 1

----------------------------------------------------------------------------
(* Properties of the coupling audit *)

RECURSIVE CoupleFrom(_, _)
CoupleFrom(reps, i) ==
    IF i > Len(reps) THEN reps ELSE CoupleFrom(coupleReport(reps, i), i + 1)

(* the reports startAudit returns for the mapping t *)
FinalReports(t) == CoupleFrom(couplingReportsOf(t), 1)

CouplingReported == pc = "Done" /\ Has(result, "reports")

Dependents(t, m) ==
    {i \in DOMAIN t : t[i].file # m /\ m \in Range(t[i].dependencies)}

SelfDependencies(t) ==
    UNION {{<<i, j>> : j \in {k \in DOMAIN t[i].dependencies :
                                  t[i].dependencies[k] = t[i].file}} :
              i \in DOMAIN t}

RemoveDependency(t, i, j) ==
    [t EXCEPT ![i].dependencies = SubSeq(@, 1, j - 1) \o SubSeq(@, j + 1, Len(@))]

TotalEntries(t) == SumSeq([i \in DOMAIN t |-> Len(t[i].dependencies)])

SumEfferent(reps) == SumSeq([i \in DOMAIN reps |-> reps[i]["efferentCoupling"]])

SumAfferent(reps) == SumSeq([i \in DOMAIN reps |-> reps[i]["afferentCoupling"]])

(* no self-dependency, no entry listed twice, every dependency a module *)
CleanTree(t) ==
    /\ SelfDependencies(t) = {}
    /\ ~HasDuplicateDependency(t)
    /\ \A i \in DOMAIN t : Range(t[i].dependencies) \subseteq Range(Keys(t))

(* C6: efferentCoupling(m) is the number of distinct entries of deps(m) and   *)
(* afferentCoupling(m) the number of other modules that list m.               *)
C6_CouplingCounts ==
    CouplingReported =>
        \A i \in DOMAIN tree :
            /\ result["reports"][i]["efferentCoupling"]
                  = Cardinality(Range(tree[i].dependencies))
            /\ result["reports"][i]["afferentCoupling"]
                  = Cardinality(Dependents(tree, tree[i].file))

(* C7: as claimed, a self-dependency raises both counts of its module by one. *)
C7_SelfCountsBoth ==
    CouplingReported =>
        \A p \in SelfDependencies(tree) :
            LET other == FinalReports(RemoveDependency(tree, p[1], p[2]))
                mine == result["reports"][p[1]]
            IN  /\ mine["efferentCoupling"] = other[p[1]]["efferentCoupling"] + 1
                /\ mine["afferentCoupling"] = other[p[1]]["afferentCoupling"] + 1

(* C7, amended: a self-dependency raises the efferent count of its module by  *)
(* one and leaves its afferent count as it is without the self-dependency.    *)
C7_SelfCountsEfferentOnly ==
    CouplingReported =>
        \A p \in SelfDependencies(tree) :
            LET other == FinalReports(RemoveDependency(tree, p[1], p[2]))
                mine == result["reports"][p[1]]
            IN  /\ mine["efferentCoupling"] = other[p[1]]["efferentCoupling"] + 1
                /\ mine["afferentCoupling"] = other[p[1]]["afferentCoupling"]

C7_Witness ==
    /\ CouplingReported
    /\ \E p \in SelfDependencies(tree) :
          /\ result["reports"][p[1]]["efferentCoupling"] >= 2
          /\ result["reports"][p[1]]["afferentCoupling"] = 1

Hundredths(fixed) == 100 * fixed.units + fixed.cents

Distance(x, y) == IF x >= y THEN x - y ELSE y - x

(* C9: instabilityIndex(m) is efferent / (efferent + afferent) rounded to two *)
(* decimals, lies in [0, 1], and is 0 when the denominator is 0.              *)
C9_InstabilityIndex ==
    CouplingReported =>
        \A i \in DOMAIN result["reports"] :
            LET r == result["reports"][i]
                e == r["efferentCoupling"]
                total == r["efferentCoupling"] + r["afferentCoupling"]
                h == Hundredths(r["instabilityIndex"])
            IN  /\ r["instabilityIndex"].cents \in 0..99
                /\ h \in 0..100
                /\ total = 0 => h = 0
                /\ total > 0 => 2 * Distance(100 * e, h * total) <= total

C9_Witness ==
    /\ CouplingReported
    /\ \E i \in DOMAIN result["reports"] :
          /\ result["reports"][i]["efferentCoupling"] = 2
          /\ result["reports"][i]["afferentCoupling"] = 1
          /\ Hundredths(result["reports"][i]["instabilityIndex"]) = 67

(* the stepwise construction and buildLouvainGraph as a whole agree *)
BuilderAgrees == pc = "GraphReturned" => graph = buildLouvainGraph(tree, svg)

----------------------------------------------------------------------------
(* Properties of the metrics *)

InUnitInterval(q) == IsFinite(q) /\ q.den > 0 /\ 0 <= q.num /\ q.num <= q.den

IsZero(q) == IsFinite(q) /\ q.num = 0

SameNumber(q, r) == IsFinite(q) /\ IsFinite(r) /\ q.num * r.den = r.num * q.den

CentralityKeys == {"degreeCentrality", "inDegreeCentrality", "outDegreeCentrality"}

MetricsReported ==
    /\ pc = "Done"
    /\ Has(result, "density") /\ result["density"] # Null
    /\ \A k \in CentralityKeys : Has(result, k) /\ result[k] # Null

(* every ordered pair of distinct nodes is an edge, and no node has a loop *)
CompleteWithoutLoops(g) ==
    Range(g.edges) = {<<m, n>> \in Range(g.nodes) \X Range(g.nodes) : m # n}

Max(a, b) == IF a >= b THEN a ELSE b

(* C11: the reported density of every graph the engine can build lies in    *)
(* [0,1], and the complete directed graph on 3 nodes without self-loops     *)
(* (6 edges) has density 1.                                                 *)
C11_DensityBounds ==
    MetricsReported =>
        /\ InUnitInterval(result["density"])
        /\ (Order(graph) = 3 /\ CompleteWithoutLoops(graph)
                => SameNumber(result["density"], Ratio(1, 1)))

(* C12: for every graph the engine can build and every node, each of the    *)
(* three centralities is its degree over max(1, n - 1) and lies in [0,1].   *)
C12_CentralityRange ==
    MetricsReported =>
        \A n \in Range(graph.nodes) :
            /\ \A k \in CentralityKeys : InUnitInterval(result[k][n])
            /\ SameNumber(result["degreeCentrality"][n],
                   Ratio(InDegree(graph, n) + OutDegree(graph, n),
                         Max(1, Order(graph) - 1)))
            /\ SameNumber(result["inDegreeCentrality"][n],
                   Ratio(InDegree(graph, n), Max(1, Order(graph) - 1)))
            /\ SameNumber(result["outDegreeCentrality"][n],
                   Ratio(OutDegree(graph, n), Max(1, Order(graph) - 1)))

(* C13: on a graph with exactly one node the three centralities of that     *)
(* node are 0; no NaN and no infinite value is reported.                    *)
C13_SingleNodeCentralities ==
    MetricsReported /\ Order(graph) = 1 =>
        \A k \in CentralityKeys, n \in Range(graph.nodes) : IsZero(result[k][n])

CommunitiesReported == pc = "Done" /\ Has(result, "communities")

(* C14: in every run that reports communities, the mapping has exactly the  *)
(* nodes of the graph as its keys and gives each an integer community id    *)
(* (one of 0 .. count-1).                                                   *)
C14_PartitionCoversNodes ==
    CommunitiesReported =>
        /\ DOMAIN result["communities"] = Range(graph.nodes)
        /\ \A n \in Range(graph.nodes) :
              result["communities"][n] \in Ids(result["count"])

(* three nodes in two communities *)
C14_Witness ==
    /\ CommunitiesReported
    /\ Order(graph) = 3
    /\ result["count"] = 2
    /\ \E m, n \in Range(graph.nodes) :
          m # n /\ result["communities"][m] = result["communities"][n]

(* louvain run to its end with every pass started at index 0 *)
RECURSIVE LocalMoves(_)
LocalMoves(ix) == IF ix.queue = <<>> THEN ix ELSE LocalMoves(Visit(ix))

RECURSIVE LouvainFrom(_)
LouvainFrom(ix) ==
    LET after == LocalMoves(StartPass(ix, 0))
    IN  IF after.moved THEN LouvainFrom(zoomOut(after)) ELSE after

ReferenceRun(g) == louvainDetailed(LouvainFrom(NewIndex(g)))

(* C15: two runs of the community detection on the same graph (same nodes   *)
(* and edges in the same insertion order, same resolution) give the same    *)
(* partition and the same modularity: every run's answer is the answer of   *)
(* the run whose passes start at the first node.                            *)
C15_Deterministic ==
    CommunitiesReported /\ Size(graph) > 0 =>
        /\ result["communities"] = ReferenceRun(graph)["communities"]
        /\ SameNumber(result["modularity"], ReferenceRun(graph)["modularity"])

(* C16: Scenario D (edges a -> b and c -> d only): a and b share a          *)
(* community, c and d share another one, and the modularity is positive.    *)
C16_ScenarioD ==
    CommunitiesReported /\ tree = ScenarioD =>
        /\ result["communities"]["a"] = result["communities"]["b"]
        /\ result["communities"]["c"] = result["communities"]["d"]
        /\ result["communities"]["a"] # result["communities"]["c"]
        /\ IsFinite(result["modularity"])
        /\ result["modularity"].num > 0 /\ result["modularity"].den > 0

C16_Witness ==
    /\ CommunitiesReported
    /\ tree = ScenarioD
    /\ Range(graph.edges) = {<<"a", "b">>, <<"c", "d">>}
    /\ result["count"] = 2
    /\ SameNumber(result["modularity"], Ratio(63, 100))

PassThroughKeys == {"circular", "warnings", "orphans", "leaves"}

(* C17: the circular groups, warnings, orphans and leaves of a successful   *)
(* result are exactly the values the extractor returned in that run.        *)
C17_PassThrough ==
    pc = "Done" /\ ~IsEmptyObject(result) =>
        \A k \in PassThroughKeys :
            Has(result, k) /\ Has(history.extracted, k)
                /\ result[k] = history.extracted[k]

C17_Witness ==
    /\ pc = "Done"
    /\ Has(result, "density")
    /\ Has(result, "warnings") /\ result["warnings"] = <<"skipped">>
    /\ Has(result, "circular") /\ result["circular"] = <<<<"a", "b">>>>

----------------------------------------------------------------------------
(* Properties of the tree normalizer *)

(* the number of dependency entries declared before module i *)
EntriesBefore(t, i) == SumSeq([k \in 1..(i - 1) |-> Len(t[k].dependencies)])

(* C19: the normalizer's nodes are the keys of the mapping in key order; its *)
(* edges are the [module, dependency] pairs, one per occurrence, module by   *)
(* module in key order and in declaration order within a module; the empty   *)
(* mapping gives {nodes: [], edges: []}, and the call always returns.        *)
C19_Normalizer ==
    pc = "Normalized" =>
        /\ returned = "object"
        /\ result["nodes"] = Keys(tree)
        /\ Len(result["edges"]) = TotalEntries(tree)
        /\ \A i \in DOMAIN tree : \A j \in DOMAIN tree[i].dependencies :
              result["edges"][EntriesBefore(tree, i) + j]
                  = <<tree[i].file, tree[i].dependencies[j]>>
        /\ (tree = <<>> => result["nodes"] = <<>> /\ result["edges"] = <<>>)

(* a module that names a dependency twice, followed by another module *)
C19_Witness ==
    /\ pc = "Normalized"
    /\ Len(tree) = 2
    /\ Len(tree[1].dependencies) = 2
    /\ tree[1].dependencies[1] = tree[1].dependencies[2]
    /\ tree[1].dependencies[1] # tree[1].file
    /\ Len(result["edges"]) = 2

----------------------------------------------------------------------------
(* Properties of the order of the stages *)

(* Start -> TreeBuilt -> graph construction -> GraphBuilt -> metrics -> Done *)
Stage(p) ==
    CASE p = "Start" -> 0
      [] p = "TreeBuilt" -> 1
      [] p \in {"AddNodes", "AddEdges"} -> 2
      [] p = "GraphReturned" -> 3
      [] p \in {"LouvainPass", "LouvainMoves", "Communities", "Density"} -> 4
      [] p = "Done" -> 5

NodeInserted == IsGraph(graph) /\ IsGraph(graph') /\ graph'.nodes # graph.nodes

EdgeInserted == IsGraph(graph) /\ IsGraph(graph') /\ graph'.edges # graph.edges

MetricExecuted == bundle' # bundle \/ index' # index

EntersEmpty == pc # "Done" /\ pc' = "Done" /\ IsEmptyObject(result')

StageStep ==
    /\ Stage(pc') >= Stage(pc)
    /\ pc # "Done"
    /\ NodeInserted => Stage(pc) = 2 /\ graph.edges = <<>> /\ ~EdgeInserted
    /\ EdgeInserted => Stage(pc) = 2 /\ nodesTodo = <<>>
    /\ graph' # graph => Stage(pc) \in {1, 2}
    /\ MetricExecuted => /\ Stage(pc) \in {3, 4}
                         /\ IsGraph(graph)
                         /\ graph' = graph
                         /\ nodesTodo = <<>> /\ edgesTodo = <<>>
    /\ Stage(pc) < 3 => bundle = EmptyObj /\ index = Null
    /\ EntersEmpty => /\ Stage(pc) < 4 => bundle = EmptyObj /\ index = Null
                      /\ ~MetricExecuted
                      /\ graph' = graph

(* C20: the stages of a run follow one another in the order Start, TreeBuilt, *)
(* GraphBuilt, MetricsComputed, Done: nodes are inserted only while no edge   *)
(* has been inserted, no metric is computed before the graph is finished and  *)
(* none changes it, and a run that ends empty executes no stage afterwards;   *)
(* one that ends empty before the metrics stage has executed no metric.       *)
C20_StageOrder == [][StageStep]_vars

(* a run that went through every stage with nodes and edges inserted *)
C20_Witness ==
    /\ pc = "Done"
    /\ Has(result, "density") /\ Has(result, "communities")
    /\ IsGraph(graph)
    /\ Order(graph) >= 2
    /\ Size(graph) >= 1

----------------------------------------------------------------------------
----------------------------------------------------------------------------
(* The report writer of the modularity audit *)

(* a file left by an earlier run *)
OldFile == [exists |-> TRUE, format |-> "old", keys |-> {}]

(* the output directory as a call can find it *)
Disks ==
    {NoDisk} \cup {[dir |-> TRUE, report |-> r, svg |-> v] : r, v \in {NoFile, OldFile}}

(* which call of fs, if any, throws *)
DiskOutcomes == {"ok", "rmThrows", "mkdirThrows", "writeThrows", "svgThrows"}

(* json and html are the formats the formatter knows; "" is no format given *)
FileFormats == {"json", "html", "xml", ""}

(* a finished audit of a mapping whose modules are all placed *)
AuditResult(t) ==
    LET s == PlacedSvg(t)
        g == buildLouvainGraph(t, s)
        base == ("tree" :> t) @@ ("svg" :> s) @@ ("graph" :> g)
    IN  Spread(Spread(Spread(base, ReferenceRun(g)), readDensity(g)),
               readDegreeCentralities(g))

(* the result of the audit of Scenario D *)
SampleAudit == AuditResult(ScenarioD)

(* what the writer can be handed: nothing, {} or the result of an audit *)
WriterResults == {Null, EmptyObj, SampleAudit}

(* lines 259-269: the reports object; JSON.stringify leaves out what is undefined *)
ReportsOf(res) ==
    {"svgFile"}
        \cup {k \in {"density", "degreeCentrality", "inDegreeCentrality",
                     "outDegreeCentrality"} : Has(res, k)}
        \cup (IF Has(res, "louvainDetails") THEN {"modularity", "communities"} ELSE {})

(* formatCodeModularityAuditReports: the text of the report, '' (no file) for *)
(* a format that is not json or html                                          *)
formatCodeModularityAuditReports(fileFormat, keys) ==
    IF fileFormat = "json" THEN [exists |-> TRUE, format |-> "json", keys |-> keys]
    ELSE IF fileFormat = "html" THEN [exists |-> TRUE, format |-> "html", keys |-> keys]
    ELSE NoFile

SvgFile == [exists |-> TRUE, format |-> "svg", keys |-> {}]

(* writeCodeModularityAuditToFile: the value returned and the directory afterwards *)
writeCodeModularityAuditToFile(disk, options, res, outcome) ==
    LET ret(v, d) == [returned |-> v, disk |-> d]
        prepareThrows == IF disk.report.exists THEN outcome = "rmThrows"
                         ELSE outcome = "mkdirThrows"
        prepared == IF disk.report.exists THEN [disk EXCEPT !.report = NoFile]
                    ELSE [disk EXCEPT !.dir = TRUE]
        formatted == formatCodeModularityAuditReports(options.fileFormat, ReportsOf(res))
        written == [prepared EXCEPT !.report = formatted]
        svgRemoved == [written EXCEPT !.svg = NoFile]
    IN  IF options.outputDir = "" THEN ret(FALSE, disk)
        ELSE IF res = Null THEN ret(FALSE, disk)
        ELSE IF prepareThrows THEN ret(FALSE, disk)
        ELSE IF ~formatted.exists THEN ret(FALSE, prepared)
        ELSE IF outcome = "writeThrows" THEN ret(FALSE, prepared)
        ELSE IF ~(Has(res, "svg") /\ TruthySvg(res["svg"])) THEN ret(TRUE, written)
        ELSE IF outcome = "svgThrows" THEN ret(FALSE, svgRemoved)
        ELSE ret(TRUE, [written EXCEPT !.svg = SvgFile])

InitWriter ==
    /\ pc = "WriterStart"
    /\ tree = <<>>
    /\ svg = NoSvg
    /\ rest = EmptyObj
    /\ treeData = [ok |-> FALSE, items |-> {}]
    /\ nodesTodo = <<>>
    /\ edgesTodo = <<>>
    /\ graph = EmptyGraph
    /\ bundle = EmptyObj
    /\ result \in WriterResults
    /\ returned = "pending"
    /\ history = [madge |-> "pending", build |-> "none", louvain |-> "none", metric |-> "none",
                  extracted |-> EmptyObj]
    /\ reports = <<>>
    /\ idx = 0
    /\ index = Null
    /\ cli = NotStarted
    /\ \E d \in Disks, outputDir \in {"", "out"}, fileFormat \in FileFormats,
          outcome \in DiskOutcomes :
          fs = [before |-> d, now |-> d,
                call |-> [outputDir |-> outputDir, fileFormat |-> fileFormat,
                          outcome |-> outcome]]
    /\ match = NoMatcher

(* one call of the writer with the result in hand *)
WriteReport ==
    /\ pc = "WriterStart"
    /\ LET w == writeCodeModularityAuditToFile(fs.now, fs.call, result, fs.call.outcome)
       IN  /\ fs' = [fs EXCEPT !.now = w.disk]
           /\ returned' = IF w.returned THEN "true" ELSE "false"
    /\ pc' = "WriterReturned"
    /\ UNCHANGED <<tree, svg, rest, treeData, nodesTodo, edgesTodo, graph, bundle,
                   result, history, reports, idx, index, cli, match>>

NextWriter == WriteReport

SpecWriter == InitWriter /\ [][NextWriter]_vars

(* The command line program: the auditors one after the other *)

(* how a call ends: with a value, or with an exception that leaves it *)
Returns(v) == [thrown |-> FALSE, value |-> v]

Throws == [thrown |-> TRUE, value |-> "exception"]

Formats == {"json", "html"}

(* what can happen inside the try block of an auditor or a writer *)
ComplexityOutcomes == {"report", "noFiles", "throws"}

DuplicationOutcomes == {"ok", "installThrows", "jscpdThrows", "htmlThrows"}

ModularityOutcomes == {"report", "empty"}

WriterOutcomes == {"written", "nothingFormatted", "throws"}

CleaningOutcomes == {"absent", "removed", "throws"}

(* try { ... return {summary, auditReports} } catch { return {} } *)
startComplexityAudit(directory, outcome) ==
    IF directory = "" THEN Returns("{}")
    ELSE IF outcome = "report" THEN Returns("report")
    ELSE Returns("{}")

(* try { ... writeFileSync(...); return true } catch { return false } *)
writeCodeComplexityAuditToFile(outputDir, outcome) ==
    IF outputDir = "" THEN Returns("false")
    ELSE IF outcome = "written" THEN Returns("true")
    ELSE Returns("false")

(* a duplication auditor without its outer catch *)
startDuplicationAudit_Rethrows(fileFormat, outcome) ==
    IF outcome = "installThrows" THEN Throws
    ELSE IF fileFormat = "html" /\ outcome = "htmlThrows" THEN Throws
    ELSE Returns("true")

(* try { install; try { jscpd } catch { log }; html touch-up; return true } *)
(* catch { return false }                                                   *)
startDuplicationAudit(fileFormat, outcome) ==
    IF outcome = "installThrows" THEN Returns("false")
    ELSE IF fileFormat = "html" /\ outcome = "htmlThrows" THEN Returns("false")
    ELSE Returns("true")

(* startModularityAudit as the program sees it: an object, {} on any failure *)
startModularityAudit(outcome) ==
    IF outcome = "report" THEN Returns("report") ELSE Returns("{}")

(* the object the modularity audit handed back *)
ModularityResult(answer) ==
    IF answer = "report" THEN SampleAudit ELSE EmptyObj

InitCli ==
    /\ pc = "CliStart"
    /\ tree = <<>>
    /\ svg = NoSvg
    /\ rest = EmptyObj
    /\ treeData = [ok |-> FALSE, items |-> {}]
    /\ nodesTodo = <<>>
    /\ edgesTodo = <<>>
    /\ graph = EmptyGraph
    /\ bundle = EmptyObj
    /\ result = EmptyObj
    /\ returned = "pending"
    /\ history = [madge |-> "pending", build |-> "none", louvain |-> "none", metric |-> "none",
                  extracted |-> EmptyObj]
    /\ reports = <<>>
    /\ idx = 0
    /\ index = Null
    /\ cli = NotStarted
    /\ fs = NoFiles
    /\ match = NoMatcher

NotCli == <<tree, svg, rest, treeData, nodesTodo, edgesTodo, graph, bundle, result,
            history, reports, idx, index, match>>

Logged(step, outcome, answer) == [step |-> step, outcome |-> outcome, answer |-> answer]

(* a statement of the program: an exception that leaves the call ends the *)
(* process, a value lets the next statement run                           *)
Statement(step, outcome, call, next) ==
    IF call.thrown
    THEN /\ cli' = [cli EXCEPT !.exit = "crashed",
                               !.steps = Append(@, Logged(step, outcome, "exception"))]
         /\ pc' = "CliExited"
         /\ returned' = returned
    ELSE /\ cli' = [cli EXCEPT !.steps = Append(@, Logged(step, outcome, call.value))]
         /\ pc' = next
         /\ returned' = call.value

(* parseArgs and the check of srcDir and outputDir *)
CheckArguments ==
    /\ pc = "CliStart"
    /\ \E srcDir \in {"", "src"}, outputDir \in {"", "out"}, format \in Formats :
          IF srcDir = "" \/ outputDir = ""
          THEN /\ cli' = [cli EXCEPT !.exit = "exit(-1)",
                                     !.steps = Append(@, Logged("arguments", "missing", ""))]
               /\ pc' = "CliExited"
          ELSE /\ cli' = [cli EXCEPT !.srcDir = srcDir, !.outputDir = outputDir,
                                     !.format = format,
                                     !.steps = Append(@, Logged("arguments", "valid", ""))]
               /\ pc' = "CliClean"
    /\ UNCHANGED returned
    /\ UNCHANGED NotCli
    /\ UNCHANGED fs

(* a cleaning whose failure is logged and lets the auditors run *)
CleanWorkspace_ContinuesOnFailure ==
    /\ pc = "CliClean"
    /\ \E outcome \in CleaningOutcomes :
          /\ cli' = [cli EXCEPT !.steps = Append(@, Logged("cleaning", outcome, ""))]
          /\ pc' = "CliComplexity"
    /\ UNCHANGED returned
    /\ UNCHANGED NotCli
    /\ UNCHANGED fs

(* cleaning workspace: rm -rf of an existing output directory *)
CleanWorkspace ==
    /\ pc = "CliClean"
    /\ \E outcome \in CleaningOutcomes :
          IF outcome = "throws"
          THEN /\ cli' = [cli EXCEPT !.exit = "exit(-1)",
                                     !.steps = Append(@, Logged("cleaning", outcome, ""))]
               /\ pc' = "CliExited"
          ELSE /\ cli' = [cli EXCEPT !.steps = Append(@, Logged("cleaning", outcome, ""))]
               /\ pc' = "CliComplexity"
    /\ UNCHANGED returned
    /\ UNCHANGED NotCli
    /\ UNCHANGED fs

ComplexityAudit ==
    /\ pc = "CliComplexity"
    /\ \E outcome \in ComplexityOutcomes :
          Statement("complexity", outcome, startComplexityAudit(cli.srcDir, outcome),
                    "CliComplexityWrite")
    /\ UNCHANGED NotCli
    /\ UNCHANGED fs

ComplexityWrite ==
    /\ pc = "CliComplexityWrite"
    /\ \E outcome \in WriterOutcomes :
          Statement("complexityWriter", outcome,
                    writeCodeComplexityAuditToFile(cli.outputDir, outcome),
                    "CliDuplication")
    /\ UNCHANGED NotCli
    /\ UNCHANGED fs

DuplicationAudit ==
    /\ pc = "CliDuplication"
    /\ \E outcome \in DuplicationOutcomes :
          Statement("duplication", outcome, startDuplicationAudit(cli.format, outcome),
                    "CliModularity")
    /\ UNCHANGED NotCli
    /\ UNCHANGED fs

ModularityAudit ==
    /\ pc = "CliModularity"
    /\ \E outcome \in ModularityOutcomes :
          Statement("modularity", outcome, startModularityAudit(outcome),
                    "CliModularityWrite")
    /\ UNCHANGED NotCli
    /\ UNCHANGED fs

ModularityWrite ==
    /\ pc = "CliModularityWrite"
    /\ \E outcome \in DiskOutcomes :
          LET w == writeCodeModularityAuditToFile(fs.now,
                       [outputDir |-> cli.outputDir, fileFormat |-> cli.format],
                       ModularityResult(returned), outcome)
          IN  /\ Statement("modularityWriter", outcome,
                           Returns(IF w.returned THEN "true" ELSE "false"), "CliFinish")
              /\ fs' = [fs EXCEPT !.now = w.disk]
    /\ UNCHANGED NotCli

(* the last statement: 'Code audit finished successfully' *)
Finish ==
    /\ pc = "CliFinish"
    /\ cli' = [cli EXCEPT !.exit = "finished",
                          !.steps = Append(@, Logged("finished", "logged", ""))]
    /\ pc' = "CliExited"
    /\ UNCHANGED returned
    /\ UNCHANGED NotCli
    /\ UNCHANGED fs

NextCli ==
    \/ CheckArguments
    \/ CleanWorkspace
    \/ ComplexityAudit
    \/ ComplexityWrite
    \/ DuplicationAudit
    \/ ModularityAudit
    \/ ModularityWrite
    \/ Finish

(* the statements of the module run one after the other, each call returns *)
SpecCli == InitCli /\ [][NextCli]_vars /\ WF_vars(NextCli)

----------------------------------------------------------------------------
(* Properties of the command line program *)

StepNames == [i \in DOMAIN cli.steps |-> cli.steps[i].step]

ValidArguments == Len(cli.steps) >= 1 /\ cli.steps[1].outcome = "valid"

PastCleaning ==
    /\ ValidArguments
    /\ Len(cli.steps) >= 2
    /\ cli.steps[2].outcome \in {"absent", "removed"}

CleaningFailed ==
    /\ ValidArguments
    /\ Len(cli.steps) >= 2
    /\ cli.steps[2].outcome = "throws"

AllSteps ==
    <<"arguments", "cleaning", "complexity", "complexityWriter", "duplication",
      "modularity", "modularityWriter", "finished">>

IsPrefix(a, b) == Len(a) <= Len(b) /\ \A i \in DOMAIN a : a[i] = b[i]

FailureOutcomes ==
    {"noFiles", "throws", "nothingFormatted", "installThrows", "jscpdThrows",
     "htmlThrows", "empty", "rmThrows", "mkdirThrows", "writeThrows", "svgThrows"}

FinishedAfterAll == pc = "CliExited" /\ cli.exit = "finished" /\ StepNames = AllSteps

(* C18 as stated: every run with valid arguments ends at the 'finished' *)
(* step with every auditor and writer run                               *)
C18_AlwaysFinishes ==
    pc = "CliExited" /\ ValidArguments => FinishedAfterAll

(* C18: in a run with valid arguments that gets past the cleaning of the   *)
(* workspace, no failure of an auditor or of a writer crashes the process  *)
(* or keeps a later auditor or writer from running: the steps run in order *)
(* and the run reaches the 'finished' step; a run whose cleaning fails     *)
(* exits with -1 before any auditor is started.                            *)
C18_AuditorsNeverBlock ==
    /\ [](cli.exit # "crashed")
    /\ [](IsPrefix(StepNames, AllSteps))
    /\ [](pc = "CliExited" /\ PastCleaning => FinishedAfterAll)
    /\ [](CleaningFailed => cli.exit = "exit(-1)" /\ Len(cli.steps) = 2)
    /\ (PastCleaning ~> FinishedAfterAll)

(* a finished run in which both auditors with a writer failed and the *)
(* duplication auditor failed too                                     *)
C18_Witness ==
    /\ FinishedAfterAll
    /\ cli.steps[3].outcome = "throws"
    /\ cli.steps[5].outcome \in {"installThrows", "htmlThrows"}
    /\ cli.steps[5].answer = "false"
    /\ cli.steps[6].outcome = "empty"
    /\ cli.steps[7].outcome = "writeThrows"
    /\ cli.steps[7].answer = "false"

StepAt(name) == CHOOSE i \in DOMAIN cli.steps : cli.steps[i].step = name

Ran(name) == \E i \in DOMAIN cli.steps : cli.steps[i].step = name

Auditors == {"complexity", "duplication", "modularity"}

WriterOf == [complexityWriter |-> "complexity", modularityWriter |-> "modularity"]

MissingArguments == Len(cli.steps) >= 1 /\ cli.steps[1].outcome = "missing"

(* C30: with srcDir or outputDir missing the program exits with -1 before  *)
(* the cleaning and before any auditor; when the cleaning of an existing   *)
(* output directory fails it exits with -1 before any auditor; otherwise   *)
(* the auditors run in the order complexity, duplication, modularity, and  *)
(* a report is written only after its own audit has returned.              *)
C30_FixedOrder ==
    /\ MissingArguments =>
          /\ pc = "CliExited" /\ cli.exit = "exit(-1)"
          /\ ~Ran("cleaning") /\ \A a \in Auditors : ~Ran(a)
    /\ CleaningFailed =>
          /\ pc = "CliExited" /\ cli.exit = "exit(-1)"
          /\ \A a \in Auditors : ~Ran(a)
    /\ Ran("complexity") => PastCleaning
    /\ Ran("duplication") => Ran("complexity") /\ StepAt("complexity") < StepAt("duplication")
    /\ Ran("modularity") => Ran("duplication") /\ StepAt("duplication") < StepAt("modularity")
    /\ \A w \in DOMAIN WriterOf :
          Ran(w) => /\ Ran(WriterOf[w])
                    /\ StepAt(WriterOf[w]) < StepAt(w)
                    /\ cli.steps[StepAt(WriterOf[w])].answer \in {"report", "{}"}
    /\ \A i, j \in DOMAIN cli.steps : cli.steps[i].step = cli.steps[j].step => i = j

(* the cleaning of the output directory failed and the program has exited *)
C30_Witness ==
    /\ pc = "CliExited"
    /\ CleaningFailed
    /\ cli.exit = "exit(-1)"
    /\ StepNames = <<"arguments", "cleaning">>

----------------------------------------------------------------------------
(* Properties of the graph under construction *)

EndpointsPresent(g) ==
    \A i \in DOMAIN g.edges : HasNode(g, g.edges[i][1]) /\ HasNode(g, g.edges[i][2])

NoParallelEdges(g) ==
    \A i, j \in DOMAIN g.edges : g.edges[i] = g.edges[j] => i = j

(* C21: while the graph is built, and in every graph buildLouvainGraph       *)
(* returns, both endpoints of every edge are nodes of the graph and no       *)
(* ordered (source, target) pair has more than one edge; self-loops occur.   *)
C21_WellFormedGraph ==
    IsGraph(graph) => EndpointsPresent(graph) /\ NoParallelEdges(graph)

(* a returned graph with a self-loop and an edge between two modules *)
C21_Witness ==
    /\ pc = "GraphReturned"
    /\ IsGraph(graph)
    /\ Size(graph) = 2
    /\ \E i \in DOMAIN graph.edges : graph.edges[i][1] = graph.edges[i][2]
    /\ \E i \in DOMAIN graph.edges : graph.edges[i][1] # graph.edges[i][2]

----------------------------------------------------------------------------
(* Properties of the metrics stage as a whole *)

ValidGraphRun ==
    pc = "Done" /\ history.madge = "ok" /\ history.build = "none" /\ IsGraph(graph)

CommunitiesComputed == history.louvain = "details"

DensityComputed == Has(bundle, "density")

C23_GraphReadOnly ==
    /\ Stage(pc) >= 3 /\ IsGraph(graph) /\ history.madge = "ok" =>
          graph = buildLouvainGraph(tree, svg)
    /\ Stage(pc) >= 3 /\ Has(bundle, "graph") => bundle["graph"] = graph
    /\ pc = "Done" /\ Has(result, "graph") =>
          /\ result["graph"] = buildLouvainGraph(tree, svg)
          /\ result["graph"].attrs = graph.attrs

(* a finished run whose graph has placed nodes and an edge, with every *)
(* metric computed on it                                               *)
C23_Witness ==
    /\ pc = "Done"
    /\ MetricKeys \subseteq DOMAIN result
    /\ Has(result, "graph")
    /\ Order(result["graph"]) = 2
    /\ Size(result["graph"]) >= 1
    /\ \A n \in Range(result["graph"].nodes) : Has(result["graph"].attrs, n)

----------------------------------------------------------------------------
(* Properties of the termination of the community detection *)

(* visiting node i now would leave it where it is *)
StableNode(ix, i) == Visit([ix EXCEPT !.queue = <<i>>]).belongings = ix.belongings

PhaseEnded == pc = "LouvainMoves" /\ index.queue = <<>>

(* C24 as stated: a local moving phase ends after a full pass in which no *)
(* node moves, so at its end a visit of any node would move nothing       *)
C24_PhaseEndsAfterQuietPass ==
    PhaseEnded => \A i \in Ids(index.C) : StableNode(index, i)

LouvainRunning == pc \in {"LouvainPass", "LouvainMoves"}

PhaseLeft == pc = "LouvainMoves" /\ pc' # "LouvainMoves"

(* the numerator of the modularity; its denominator 100 * M * M never changes *)
Quality(ix) == modularity(ix).num

(* every step of the detection goes down in the order (number of nodes of    *)
(* the level, pass not yet started, modularity still to gain, queue length): *)
(* no run of the detection is infinite                                       *)
LouvainStep ==
    /\ index.C >= 1
    /\ pc = "LouvainPass" => pc' = "LouvainMoves" /\ index'.C = index.C
    /\ pc = "LouvainMoves" /\ pc' = "LouvainMoves" =>
          /\ index.queue # <<>>
          /\ index'.C = index.C
          /\ IF index'.belongings # index.belongings
             THEN Quality(index') > Quality(index)
             ELSE Quality(index') = Quality(index)
                     /\ Len(index'.queue) < Len(index.queue)
    /\ PhaseLeft => index.queue = <<>> /\ pc' \in {"LouvainPass", "Communities"}
    /\ PhaseLeft /\ pc' = "LouvainPass" =>
          /\ index.moved
          /\ index'.level = index.level + 1
          /\ index'.C < index.C
          /\ Quality(index') = Quality(index)
    /\ PhaseLeft /\ pc' = "Communities" => ~index.moved /\ index' = index

(* C24: community detection terminates on every graph: a local moving phase *)
(* ends when its queue of nodes to visit is empty, every move raises the    *)
(* modularity, the next level is built only after a phase that moved a node *)
(* and has fewer nodes, and the detection returns after the first phase in  *)
(* which no node moved.                                                     *)
C24_LouvainTerminates == [][LouvainRunning => LouvainStep]_vars

(* a detection that returned after building at least one further level *)
C24_Witness ==
    /\ pc = "Communities"
    /\ IsGraph(graph)
    /\ index # Null
    /\ index.level >= 1
    /\ index.queue = <<>>
    /\ ~index.moved
    /\ Has(bundle, "communities")

----------------------------------------------------------------------------
(* Properties of the report writer *)

WriterReturned(v) == pc = "WriterReturned" /\ returned = v

ReportWritten == fs.now.report.exists /\ fs.now.report # OldFile

(* C25: handed the empty object {}, the writer writes no report file and   *)
(* returns false; it returns true only when a report file was written.     *)
C25_NothingRenderedForEmpty ==
    /\ pc = "WriterReturned" /\ result = EmptyObj =>
          returned = "false" /\ ~ReportWritten
    /\ WriterReturned("true") => ReportWritten

ReturnsFalseBeforeWriting ==
    \/ fs.call.outputDir = ""
    \/ result = Null
    \/ fs.call.fileFormat \notin {"json", "html"}

(* C29: when the writer returns false for an empty outputDir, a missing     *)
(* result, an unrecognised format or an empty formatted report, the output  *)
(* directory is as it was: no report deleted, no directory created.         *)
C29_FalseLeavesDiskAlone ==
    WriterReturned("false") /\ ReturnsFalseBeforeWriting /\ fs.call.outcome = "ok" =>
        fs.now = fs.before

(* C28: whenever graph construction succeeds, the node set of the graph is *)
(* the set of keys of the tree: no module is missing because the diagram   *)
(* has no entry for it, and no node is anything but a key.                 *)
C28_NodesAreTreeKeys ==
    pc = "GraphReturned" /\ IsGraph(graph) =>
        Range(graph.nodes) = Range(Keys(tree))

----------------------------------------------------------------------------
(* Matcher: a chain Matcher(value).on(p1, f1). ... .on(pn, fn).otherwise(f) *)

MaxClauses == 3

(* the values switched on; a predicate is the set of values it holds for *)
MatchValues == 0..1

Holds(predicat, value) == value \in predicat

(* the function of clause k (k = 0 for the one given to otherwise) applied *)
(* to a value: a result that tells which function ran on which value       *)
Apply(fn, value) == 10 * (fn + 1) + value

OtherwiseFn == 0

ClauseLists == UNION {[1..n -> SUBSET MatchValues] : n \in 0..MaxClauses}

(* the object returned once a clause has matched *)
matched(value) == [kind |-> "matched", value |-> value]

(* the object returned as long as no clause has matched *)
Matcher(value) == [kind |-> "Matcher", value |-> value]

(* on: of matched(value) ignores its arguments; of Matcher(value) tests the *)
(* predicate and applies fn at once when it holds                           *)
on(object, predicat, fn) ==
    IF object.kind = "matched" THEN matched(object.value)
    ELSE IF Holds(predicat, object.value) THEN matched(Apply(fn, object.value))
    ELSE Matcher(object.value)

(* an otherwise that applies its function whatever has matched *)
otherwise_Always(object, fn) == Apply(fn, object.value)

(* otherwise: of matched(value) returns the value; of Matcher(value) fn(value) *)
otherwise(object, fn) ==
    IF object.kind = "matched" THEN object.value ELSE Apply(fn, object.value)

InitMatcher ==
    /\ pc = "MatcherStart"
    /\ tree = <<>>
    /\ svg = NoSvg
    /\ rest = EmptyObj
    /\ treeData = [ok |-> FALSE, items |-> {}]
    /\ nodesTodo = <<>>
    /\ edgesTodo = <<>>
    /\ graph = EmptyGraph
    /\ bundle = EmptyObj
    /\ result = EmptyObj
    /\ returned = "pending"
    /\ history = [madge |-> "pending", build |-> "none", louvain |-> "none", metric |-> "none",
                  extracted |-> EmptyObj]
    /\ reports = <<>>
    /\ idx = 0
    /\ index = Null
    /\ cli = NotStarted
    /\ fs = NoFiles
    /\ \E value \in MatchValues, clauses \in ClauseLists :
          match = [value |-> value, clauses |-> clauses, at |-> 1,
                   object |-> Matcher(value), ran |-> <<>>, applied |-> <<>>, out |-> 0]

NotMatcher == <<tree, svg, rest, treeData, nodesTodo, edgesTodo, graph, bundle, result,
                history, reports, idx, index, cli, fs>>

(* the next .on(predicat, fn) of the chain *)
CallOn ==
    /\ pc \in {"MatcherStart", "Matching"}
    /\ match.at <= Len(match.clauses)
    /\ LET k == match.at
           predicat == match.clauses[k]
           tested == match.object.kind = "Matcher"
           holds == tested /\ Holds(predicat, match.object.value)
       IN  match' = [match EXCEPT
                        !.object = on(@, predicat, k),
                        !.at = k + 1,
                        !.ran = IF tested THEN Append(@, k) ELSE @,
                        !.applied = IF holds THEN Append(@, k) ELSE @]
    /\ pc' = "Matching"
    /\ UNCHANGED returned
    /\ UNCHANGED NotMatcher

(* the closing .otherwise(fn) *)
CallOtherwise ==
    /\ pc \in {"MatcherStart", "Matching"}
    /\ match.at > Len(match.clauses)
    /\ match' = [match EXCEPT
                    !.out = otherwise(match.object, OtherwiseFn),
                    !.applied = IF match.object.kind = "Matcher"
                                THEN Append(@, OtherwiseFn) ELSE @]
    /\ returned' = "value"
    /\ pc' = "Matched"
    /\ UNCHANGED NotMatcher

NextMatcher == CallOn \/ CallOtherwise

SpecMatcher == InitMatcher /\ [][NextMatcher]_vars

----------------------------------------------------------------------------
(* Properties of Matcher *)

Matching(k) == Holds(match.clauses[k], match.value)

SomeClauseMatches == \E k \in DOMAIN match.clauses : Matching(k)

FirstMatch ==
    CHOOSE k \in DOMAIN match.clauses :
        Matching(k) /\ \A j \in 1..(k - 1) : ~Matching(j)

UpTo(n) == [i \in 1..n |-> i]

(* C26: the clauses are tried in call order; otherwise() returns fn(value) *)
(* of the first clause whose predicate holds; after the first match no     *)
(* predicate is run and no function applied; otherwise's own function is   *)
(* applied only when no clause matched.                                    *)
C26_FirstMatchWins ==
    pc = "Matched" =>
        IF SomeClauseMatches
        THEN /\ match.out = Apply(FirstMatch, match.value)
             /\ match.ran = UpTo(FirstMatch)
             /\ match.applied = <<FirstMatch>>
        ELSE /\ match.out = Apply(OtherwiseFn, match.value)
             /\ match.ran = UpTo(Len(match.clauses))
             /\ match.applied = <<OtherwiseFn>>

(* the second of three clauses matches and the third would match too *)
C26_Witness ==
    /\ pc = "Matched"
    /\ Len(match.clauses) = 3
    /\ ~Matching(1) /\ Matching(2) /\ Matching(3)
    /\ match.out = Apply(2, match.value)

----------------------------------------------------------------------------
(* The layout resolver on the documents it can be handed *)

MaxGroups == 2

(* node.title?.[0]: no title element, an empty one, one that carries        *)
(* attributes (an object, which has no length), or a text                   *)
TitleForms == {"absent", "empty", "attrs", "a", "b"}

(* node.text?.[0]: no text element, one without attributes (a string, no $), *)
(* one whose attributes lack x and y, or one placed at x, y                  *)
TextForms == {"absent", "plain", "unplaced", "placed"}

GroupNodes == [title : TitleForms, text : TextForms]

(* what svgBuffer can be: null, text that is no XML, blank text, a document *)
(* with another root, an svg without g, an svg whose g has no g, or an svg  *)
(* whose first g holds the given nodes                                      *)
BrokenDocuments ==
    {[kind |-> k, nodes |-> <<>>] :
        k \in {"null", "malformed", "blank", "otherRoot", "svgNoGroup", "svgEmptyGroup"}}

Documents ==
    BrokenDocuments
        \cup {[kind |-> "svg", nodes |-> ns] :
                 ns \in UNION {[1..n -> GroupNodes] : n \in 1..MaxGroups}}

Raised == [raised |-> TRUE, value |-> Null]

Resolved(value) == [raised |-> FALSE, value |-> value]

(* xml2jsParser.parseStringPromise(svgContent): rejects, resolves to null *)
(* for a blank text, or resolves to the parsed object                     *)
parseStringPromise(svgBuffer) ==
    CASE svgBuffer.kind = "malformed" -> Raised
      [] svgBuffer.kind = "blank" -> Resolved(Null)
      [] svgBuffer.kind = "otherRoot" -> Resolved("html" :> EmptyObj)
      [] svgBuffer.kind = "svgNoGroup" -> Resolved("svg" :> EmptyObj)
      [] svgBuffer.kind = "svgEmptyGroup" -> Resolved("svg" :> ("g" :> <<EmptyObj>>))
      [] OTHER -> Resolved("svg" :> ("g" :> <<("g" :> svgBuffer.nodes)>>))

(* !title?.length *)
TitleLess(node) == node.title \in {"absent", "empty", "attrs"}

(* !textNode, textNode = node.text?.[0]?.$ *)
TextLess(node) == node.text \in {"absent", "plain"}

(* a loop body that keeps a node without a text node, at x = 0, y = 0 *)
NodeEntry_NoTextGuard(node) ==
    IF TitleLess(node) THEN <<>>
    ELSE IF TextLess(node) THEN <<[title |-> node.title, x |-> 0, y |-> 0]>>
    ELSE IF node.text = "unplaced" THEN <<[title |-> node.title, x |-> NaN, y |-> NaN]>>
    ELSE <<[title |-> node.title, x |-> Coord(node.title).x, y |-> Coord(node.title).y]>>

(* the body of the loop: what one node adds to svgData *)
NodeEntry(node) ==
    IF TitleLess(node) THEN <<>>
    ELSE IF TextLess(node) THEN <<>>
    ELSE IF node.text = "unplaced" THEN <<[title |-> node.title, x |-> NaN, y |-> NaN]>>
    ELSE <<[title |-> node.title, x |-> Coord(node.title).x, y |-> Coord(node.title).y]>>

(* for (const node of nodes) { ... svgData.push({ title, x, y }) } *)
svgData(nodes) == Concat([i \in DOMAIN nodes |-> NodeEntry(nodes[i])])

(* null, as the caller sees it *)
NoTreeData == [ok |-> FALSE, items |-> <<>>]

(* the whole resolver: [threw, value], value being null or the list *)
retrieveTreeData(svgBuffer) ==
    LET parsed == parseStringPromise(svgBuffer)
        body ==
            IF svgBuffer.kind = "null" THEN Raised
            ELSE IF parsed.raised THEN Raised
            ELSE IF parsed.value = Null THEN Raised
            ELSE IF ~Has(parsed.value, "svg") THEN Raised
            ELSE IF ~Has(parsed.value["svg"], "g") THEN Raised
            ELSE IF ~Has(parsed.value["svg"]["g"][1], "g") THEN Raised
            ELSE Resolved(svgData(parsed.value["svg"]["g"][1]["g"]))
    IN  IF body.raised
        THEN [threw |-> FALSE, value |-> NoTreeData]
        ELSE [threw |-> FALSE, value |-> [ok |-> TRUE, items |-> body.value]]

InitLayout ==
    /\ pc = "LayoutStart"
    /\ tree = <<>>
    /\ svg \in Documents
    /\ rest = EmptyObj
    /\ treeData = NoTreeData
    /\ nodesTodo = <<>>
    /\ edgesTodo = <<>>
    /\ graph = EmptyGraph
    /\ bundle = EmptyObj
    /\ result = EmptyObj
    /\ returned = "pending"
    /\ history = [madge |-> "pending", build |-> "none", louvain |-> "none", metric |-> "none",
                  extracted |-> EmptyObj]
    /\ reports = <<>>
    /\ idx = 0
    /\ index = Null
    /\ cli = NotStarted
    /\ fs = NoFiles
    /\ match = NoMatcher

(* await retrieveProjectTreeData(projectTreeVisualization) *)
ResolveLayout ==
    /\ pc = "LayoutStart"
    /\ LET data == retrieveTreeData(svg)
       IN  /\ treeData' = data.value
           /\ returned' = IF data.threw THEN "threw" ELSE "value"
    /\ pc' = "LayoutResolved"
    /\ UNCHANGED <<tree, svg, rest, nodesTodo, edgesTodo, graph, bundle, result,
                   history, reports, idx, index, cli, fs, match>>

NextLayout == ResolveLayout

SpecLayout == InitLayout /\ [][NextLayout]_vars

----------------------------------------------------------------------------
(* Properties of the layout resolver *)

Placeable(node) ==
    /\ node.title \notin {"absent", "empty", "attrs"}
    /\ node.text \in {"unplaced", "placed"}

RECURSIVE PlaceableTitles(_)
PlaceableTitles(nodes) ==
    IF nodes = <<>> THEN <<>>
    ELSE IF Placeable(Head(nodes))
         THEN <<Head(nodes).title>> \o PlaceableTitles(Tail(nodes))
         ELSE PlaceableTitles(Tail(nodes))

IsEntry(e) == DOMAIN e = {"title", "x", "y"}

(* C27: the layout resolver never throws; for a document that is not an svg *)
(* with the svg/g/g structure it returns null, and otherwise the list of    *)
(* {title, x, y}, one per node that has a non-empty title and a text node,  *)
(* in document order: the other nodes are skipped.                          *)
C27_ResolverNeverThrows ==
    pc = "LayoutResolved" =>
        /\ returned = "value"
        /\ IF svg.kind = "svg"
           THEN /\ treeData.ok
                /\ \A i \in DOMAIN treeData.items : IsEntry(treeData.items[i])
                /\ [i \in DOMAIN treeData.items |-> treeData.items[i].title]
                       = PlaceableTitles(svg.nodes)
           ELSE treeData = NoTreeData

(* a document whose first node has no text element and whose second is placed *)
C27_Witness ==
    /\ pc = "LayoutResolved"
    /\ svg.kind = "svg"
    /\ Len(svg.nodes) = 2
    /\ svg.nodes[1].title = "a" /\ svg.nodes[1].text = "absent"
    /\ svg.nodes[2].title = "b" /\ svg.nodes[2].text = "placed"
    /\ treeData.ok
    /\ Len(treeData.items) = 1
    /\ treeData.items[1].title = "b"

====
